---------------------------- MODULE Spec2Model ----------------------------
(***************************************************************************)
(* gpx-extractor: the GPX document (Gpx -> Track -> TrackSegment -> Point, *)
(* plus Waypoint and Metadata), its statistics engine and its XML codec.   *)
(*                                                                         *)
(* Numbers.  An f64 is modelled in fixed point.  Latitudes, longitudes and *)
(* elevations are integers counting tenths (405 is 40.5); angles in        *)
(* radians, sines, cosines and the haversine term carry the scale FP_SCALE;*)
(* distances are whole kilometres; a speed is kilometres per hour.  A      *)
(* DateTime<Utc> is a number of seconds since 2024-07-11T00:00:00Z.        *)
(* Option<T> is a sequence: None is << >>, Some(x) is << x >>.             *)
(* A text (String, &str) is a sequence of one-character strings, except    *)
(* names, which are kept as a single item.                                 *)
(***************************************************************************)
EXTENDS Integers, Sequences, FiniteSets, TLC

VARIABLES gpx, ret, stderr, calls

vars == << gpx, ret, stderr, calls >>

-----------------------------------------------------------------------------
(* Option<T> *)

None == << >>

Some(x) == << x >>

IsSome(o) == o /= << >>

IsNone(o) == o = << >>

Unwrap(o) == o[1]

-----------------------------------------------------------------------------
(* Result<T, E> *)

Ok(val) == [ok |-> TRUE, val |-> val, err |-> ""]

Err(msg) == [ok |-> FALSE, val |-> << >>, err |-> msg]

-----------------------------------------------------------------------------
(* Bounds of the model *)

\* tracks + segments + track points + waypoints of one document
MaxElements == 6

\* elements of a document handed to to_xml
MaxEncoded == 5

\* tracks of one document: a track with a segment of one point is three
\* elements, and the element budget is what bounds the model
MaxTracks == MaxElements \div 3

\* waypoints of one document
MaxWaypoints == MaxElements \div 4

-----------------------------------------------------------------------------
(* f64 arithmetic, fixed point *)

FP_SCALE == 10000

F64_INFINITY == 2000000000

F64_NEG_INFINITY == -2000000000

F64_NAN == 2000000001

Abs(x) == IF x < 0 THEN -x ELSE x

Sgn(x) == IF x < 0 THEN -1 ELSE 1

\* quotient rounded toward zero, as IEEE operations are sign-symmetric
QuotT(a, b) == Sgn(a) * Sgn(b) * (Abs(a) \div Abs(b))

\* product of two FP_SCALE numbers
FMul(a, b) == QuotT(a * b, FP_SCALE)

\* quotient of two numbers of the same scale, as an FP_SCALE number, rounded
\* toward zero (whole part and fraction summed, as a * FP_SCALE may not fit);
\* x / 0.0 is +-inf and 0.0 / 0.0 is NaN
FDiv(a, b) ==
    IF b = 0
    THEN IF a = 0 THEN F64_NAN
         ELSE IF a > 0 THEN F64_INFINITY ELSE F64_NEG_INFINITY
    ELSE Sgn(a) * Sgn(b)
         * ((Abs(a) \div Abs(b)) * FP_SCALE + ((Abs(a) % Abs(b)) * FP_SCALE) \div Abs(b))

f64_min(a, b) == IF b < a THEN b ELSE a

f64_max(a, b) == IF b > a THEN b ELSE a

\* f64::to_radians of an angle given in tenths of a degree
to_radians(tenths) == QuotT(tenths * 17453, 1000)

\* x^(2k+1)/(2k+1)! from the previous term, for the sine series
RECURSIVE SinSeries(_, _, _, _)
SinSeries(x2, term, k, n) ==
    IF k > n THEN 0
    ELSE LET next == QuotT(FMul(term, x2), (2 * k) * (2 * k + 1))
         IN  (IF k % 2 = 1 THEN -next ELSE next) + SinSeries(x2, next, k + 1, n)

\* f64::sin, for |x| <= pi/2
f64_sin(x) == x + SinSeries(FMul(x, x), x, 1, 5)

RECURSIVE CosSeries(_, _, _, _)
CosSeries(x2, term, k, n) ==
    IF k > n THEN 0
    ELSE LET next == QuotT(FMul(term, x2), (2 * k - 1) * (2 * k))
         IN  (IF k % 2 = 1 THEN -next ELSE next) + CosSeries(x2, next, k + 1, n)

\* f64::cos, for |x| <= pi/2
f64_cos(x) == FP_SCALE + CosSeries(FMul(x, x), FP_SCALE, 1, 5)

RECURSIVE ISqrt(_, _, _)
ISqrt(n, lo, hi) ==
    IF lo >= hi THEN lo
    ELSE LET mid == (lo + hi + 1) \div 2
         IN  IF mid * mid <= n THEN ISqrt(n, mid, hi) ELSE ISqrt(n, lo, mid - 1)

\* f64::sqrt of an FP_SCALE number in 0 .. 4
f64_sqrt(a) == ISqrt(a * FP_SCALE, 0, 2 * FP_SCALE)

RECURSIVE AtanSeries(_, _, _, _)
AtanSeries(u2, pow, k, n) ==
    IF k > n THEN 0
    ELSE LET next == FMul(pow, u2)
             term == QuotT(next, 2 * k + 1)
         IN  (IF k % 2 = 1 THEN -term ELSE term) + AtanSeries(u2, next, k + 1, n)

\* atan of t in 0 .. 1, by atan t = 2 atan (t / (1 + sqrt (1 + t^2)))
f64_atan(t) ==
    LET u == FDiv(t, FP_SCALE + f64_sqrt(FP_SCALE + FMul(t, t)))
    IN  2 * (u + AtanSeries(FMul(u, u), u, 1, 4))

\* f64::atan2(y, x) for y >= 0 and x >= 0, not both 0
f64_atan2(y, x) ==
    IF y <= x THEN f64_atan(FDiv(y, x))
    ELSE 15708 - f64_atan(FDiv(x, y))

-----------------------------------------------------------------------------
(* Sequences *)

RECURSIVE SumSeq(_)
\* Iterator::sum over f64 or usize
SumSeq(s) == IF s = << >> THEN 0 ELSE Head(s) + SumSeq(Tail(s))

RECURSIVE Flatten(_)
\* Iterator::flat_map(..).collect(), on the sequence of the mapped sequences
Flatten(ss) == IF ss = << >> THEN << >> ELSE Head(ss) \o Flatten(Tail(ss))

\* slice::windows(2): no window for a slice shorter than 2
Windows2(s) ==
    IF Len(s) < 2 THEN << >> ELSE [i \in 1 .. (Len(s) - 1) |-> << s[i], s[i + 1] >>]

RECURSIVE FilterMapOpt(_)
\* Iterator::filter_map over a sequence of Options
FilterMapOpt(os) ==
    IF os = << >> THEN << >>
    ELSE Head(os) \o FilterMapOpt(Tail(os))

RECURSIVE FoldMin(_, _)
\* iter().fold(acc, |acc, &x| acc.min(x))
FoldMin(s, acc) == IF s = << >> THEN acc ELSE FoldMin(Tail(s), f64_min(acc, Head(s)))

RECURSIVE FoldMax(_, _)
\* iter().fold(acc, |acc, &x| acc.max(x))
FoldMax(s, acc) == IF s = << >> THEN acc ELSE FoldMax(Tail(s), f64_max(acc, Head(s)))

-----------------------------------------------------------------------------
(* Point *)

Point_new(lat, lon) ==
    [lat |-> lat, lon |-> lon, elevation |-> None, time |-> None]

Point_with_elevation(lat, lon, elevation) ==
    [lat |-> lat, lon |-> lon, elevation |-> Some(elevation), time |-> None]

Point_with_time(lat, lon, elevation, time) ==
    [lat |-> lat, lon |-> lon, elevation |-> elevation, time |-> Some(time)]

\* Earth radius in km
R == 6371

\* both cosines taken at the latitude of the first point
haversine_distance_from(p1, p2) ==
    LET lat1_rad  == to_radians(p1.lat)
        delta_lat == to_radians(p2.lat - p1.lat)
        delta_lon == to_radians(p2.lon - p1.lon)
        sin_dlat  == f64_sin(QuotT(delta_lat, 2))
        sin_dlon  == f64_sin(QuotT(delta_lon, 2))
        a == FMul(sin_dlat, sin_dlat)
             + FMul(FMul(f64_cos(lat1_rad), f64_cos(lat1_rad)), FMul(sin_dlon, sin_dlon))
        c == 2 * f64_atan2(f64_sqrt(a), f64_sqrt(FP_SCALE - a))
    IN  QuotT(R * c, FP_SCALE)

\* the cosine of half the difference of longitudes, where the sine belongs
haversine_distance_cos(p1, p2) ==
    LET lat1_rad  == to_radians(p1.lat)
        lat2_rad  == to_radians(p2.lat)
        delta_lat == to_radians(p2.lat - p1.lat)
        delta_lon == to_radians(p2.lon - p1.lon)
        sin_dlat  == f64_sin(QuotT(delta_lat, 2))
        cos_dlon  == f64_cos(QuotT(delta_lon, 2))
        a == FMul(sin_dlat, sin_dlat)
             + FMul(FMul(f64_cos(lat1_rad), f64_cos(lat2_rad)), FMul(cos_dlon, cos_dlon))
        c == 2 * f64_atan2(f64_sqrt(a), f64_sqrt(FP_SCALE - a))
    IN  QuotT(R * c, FP_SCALE)

haversine_distance(p1, p2) ==
    LET lat1_rad  == to_radians(p1.lat)
        lat2_rad  == to_radians(p2.lat)
        delta_lat == to_radians(p2.lat - p1.lat)
        delta_lon == to_radians(p2.lon - p1.lon)
        sin_dlat  == f64_sin(QuotT(delta_lat, 2))
        sin_dlon  == f64_sin(QuotT(delta_lon, 2))
        a == FMul(sin_dlat, sin_dlat)
             + FMul(FMul(f64_cos(lat1_rad), f64_cos(lat2_rad)), FMul(sin_dlon, sin_dlon))
        c == 2 * f64_atan2(f64_sqrt(a), f64_sqrt(FP_SCALE - a))
    IN  QuotT(R * c, FP_SCALE)

-----------------------------------------------------------------------------
(* TrackSegment *)

TrackSegment_new == [points |-> << >>]

TrackSegment_with_points(points) == [points |-> points]

\* the folds without the check for no elevation at all: the seeds come back
ElevationRangeOf_seeds(points) ==
    LET elevations == FilterMapOpt([i \in 1 .. Len(points) |-> points[i].elevation])
    IN  Some(<< FoldMin(elevations, F64_INFINITY),
                FoldMax(elevations, F64_NEG_INFINITY) >>)

\* the elevation range of a Vec<&Point>, as the three elevation_range bodies compute it
ElevationRangeOf(points) ==
    LET elevations == FilterMapOpt([i \in 1 .. Len(points) |-> points[i].elevation])
    IN  IF elevations = << >> THEN None
        ELSE Some(<< FoldMin(elevations, F64_INFINITY),
                     FoldMax(elevations, F64_NEG_INFINITY) >>)

\* a distance that is unknown, not zero, for fewer than two points
distance_km_unknown(self) ==
    IF Len(self.points) < 2 THEN F64_NAN
    ELSE LET w == Windows2(self.points)
         IN  SumSeq([i \in 1 .. Len(w) |-> haversine_distance(w[i][1], w[i][2])])

distance_km(self) ==
    IF Len(self.points) < 2 THEN 0
    ELSE LET w == Windows2(self.points)
         IN  SumSeq([i \in 1 .. Len(w) |-> haversine_distance(w[i][1], w[i][2])])

TrackSegment_elevation_range(self) == ElevationRangeOf(self.points)

point_count(self) == Len(self.points)

-----------------------------------------------------------------------------
(* Track *)

Track_new == [name |-> None, segments |-> << >>]

Track_with_name(name) == [name |-> Some(name), segments |-> << >>]

add_segment(self, segment) == [self EXCEPT !.segments = Append(@, segment)]

Track_get_all_points(self) ==
    Flatten([i \in 1 .. Len(self.segments) |-> self.segments[i].points])

Track_total_distance_km(self) ==
    SumSeq([i \in 1 .. Len(self.segments) |-> distance_km(self.segments[i])])

\* the range of the first segment that has one, the other segments unread
Track_elevation_range_first(self) ==
    LET ranges == FilterMapOpt([i \in 1 .. Len(self.segments) |->
                                   TrackSegment_elevation_range(self.segments[i])])
    IN  IF ranges = << >> THEN None ELSE Some(ranges[1])

Track_elevation_range(self) == ElevationRangeOf(Track_get_all_points(self))

\* the points of the first segment only
Track_total_points_first(self) ==
    IF self.segments = << >> THEN 0 ELSE point_count(self.segments[1])

Track_total_points(self) ==
    SumSeq([i \in 1 .. Len(self.segments) |-> point_count(self.segments[i])])

Track_display_name(self) ==
    IF IsSome(self.name) THEN Unwrap(self.name) ELSE << "Unnamed Track" >>

-----------------------------------------------------------------------------
(* Waypoint *)

Waypoint_with_details(lat, lon, name, elevation, time) ==
    [lat |-> lat, lon |-> lon, name |-> name, elevation |-> elevation, time |-> time]

-----------------------------------------------------------------------------
(* Gpx: the document and its statistics *)

Gpx_new == [tracks |-> << >>, waypoints |-> << >>, metadata |-> None]

\* the empty text for a metadata without time
date_or_empty(self) ==
    IF IsNone(self.metadata) THEN None
    ELSE IF IsNone(self.metadata[1].time) THEN << << >> >>
    ELSE self.metadata[1].time

date(self) ==
    IF IsNone(self.metadata) THEN None ELSE Unwrap(self.metadata).time

\* the points of the tracks, and the waypoints after them as if they were points
get_all_points_and_waypoints(self) ==
    Flatten([i \in 1 .. Len(self.tracks) |-> Track_get_all_points(self.tracks[i])])
    \o [i \in 1 .. Len(self.waypoints) |->
           [lat       |-> self.waypoints[i].lat,
            lon       |-> self.waypoints[i].lon,
            elevation |-> self.waypoints[i].elevation,
            time      |-> self.waypoints[i].time]]

\* the points of the last track first
get_all_points_last_first(self) ==
    Flatten([i \in 1 .. Len(self.tracks) |->
                Track_get_all_points(self.tracks[Len(self.tracks) + 1 - i])])

get_all_points(self) ==
    Flatten([i \in 1 .. Len(self.tracks) |-> Track_get_all_points(self.tracks[i])])

\* the length of the line through all the points of the document, the gaps
\* between segments and between tracks included
total_distance_km_bridging(self) ==
    LET w == Windows2(get_all_points(self))
    IN  SumSeq([i \in 1 .. Len(w) |-> haversine_distance(w[i][1], w[i][2])])

total_distance_km(self) ==
    SumSeq([i \in 1 .. Len(self.tracks) |-> Track_total_distance_km(self.tracks[i])])

elevation_range(self) == ElevationRangeOf(get_all_points(self))

\* the windows of the points of the whole document taken as one run, the last
\* point of a segment paired with the first point of the next
ElevationWindows_bridging(self) == Windows2(get_all_points(self))

\* the windows over the points of a segment that have an elevation, the
\* points without one taken out first
ElevationWindows_skipping(self) ==
    Flatten([i \in 1 .. Len(self.tracks) |->
        Flatten([j \in 1 .. Len(self.tracks[i].segments) |->
            Windows2(SelectSeq(self.tracks[i].segments[j].points,
                               LAMBDA pt : IsSome(pt.elevation)))])])

\* the windows the loops of total_elevation_gain and total_elevation_loss visit, in
\* their order: for track, for segment, for window in segment.points.windows(2)
ElevationWindows(self) ==
    Flatten([i \in 1 .. Len(self.tracks) |->
        Flatten([j \in 1 .. Len(self.tracks[i].segments) |->
            Windows2(self.tracks[i].segments[j].points)])])

RECURSIVE GainLoop_climbs_only(_, _, _)
\* a loop that takes note of a pair only when it climbs
GainLoop_climbs_only(ws, total_gain, has_elevation) ==
    IF ws = << >> THEN << total_gain, has_elevation >>
    ELSE LET window == Head(ws)
         IN  IF IsSome(window[1].elevation) /\ IsSome(window[2].elevation)
             THEN LET diff == Unwrap(window[2].elevation) - Unwrap(window[1].elevation)
                  IN  IF diff > 0
                      THEN GainLoop_climbs_only(Tail(ws), total_gain + diff, TRUE)
                      ELSE GainLoop_climbs_only(Tail(ws), total_gain, has_elevation)
             ELSE GainLoop_climbs_only(Tail(ws), total_gain, has_elevation)

RECURSIVE GainLoop(_, _, _)
GainLoop(ws, total_gain, has_elevation) ==
    IF ws = << >> THEN << total_gain, has_elevation >>
    ELSE LET window == Head(ws)
         IN  IF IsSome(window[1].elevation) /\ IsSome(window[2].elevation)
             THEN LET diff == Unwrap(window[2].elevation) - Unwrap(window[1].elevation)
                  IN  GainLoop(Tail(ws),
                               IF diff > 0 THEN total_gain + diff ELSE total_gain,
                               TRUE)
             ELSE GainLoop(Tail(ws), total_gain, has_elevation)

total_elevation_gain(self) ==
    LET r == GainLoop(ElevationWindows(self), 0, FALSE)
    IN  IF r[2] THEN Some(r[1]) ELSE None

RECURSIVE LossLoop(_, _, _)
LossLoop(ws, total_loss, has_elevation) ==
    IF ws = << >> THEN << total_loss, has_elevation >>
    ELSE LET window == Head(ws)
         IN  IF IsSome(window[1].elevation) /\ IsSome(window[2].elevation)
             THEN LET diff == Unwrap(window[2].elevation) - Unwrap(window[1].elevation)
                  IN  LossLoop(Tail(ws),
                               IF diff < 0 THEN total_loss + Abs(diff) ELSE total_loss,
                               TRUE)
             ELSE LossLoop(Tail(ws), total_loss, has_elevation)

\* the descents summed with their sign
total_elevation_loss_signed(self) ==
    LET r == LossLoop(ElevationWindows(self), 0, FALSE)
    IN  IF r[2] THEN Some(-r[1]) ELSE None

total_elevation_loss(self) ==
    LET r == LossLoop(ElevationWindows(self), 0, FALSE)
    IN  IF r[2] THEN Some(r[1]) ELSE None

total_points(self) ==
    SumSeq([i \in 1 .. Len(self.tracks) |-> Track_total_points(self.tracks[i])])

total_segments(self) ==
    SumSeq([i \in 1 .. Len(self.tracks) |-> Len(self.tracks[i].segments)])

\* the time from the first timestamped point to the last one, in document order
total_duration_seconds_first_last(self) ==
    LET points == get_all_points(self)
        times  == FilterMapOpt([i \in 1 .. Len(points) |-> points[i].time])
    IN  IF times = << >> THEN None
        ELSE Some(times[Len(times)] - times[1])

total_duration_seconds(self) ==
    LET points == get_all_points(self)
        times  == FilterMapOpt([i \in 1 .. Len(points) |-> points[i].time])
    IN  IF times = << >> THEN None
        ELSE LET min_time == FoldMin(Tail(times), Head(times))
                 max_time == FoldMax(Tail(times), Head(times))
             IN  Some(max_time - min_time)

\* the speed without the check for a duration of zero
average_speed_kmh_unguarded(self) ==
    LET distance_km_   == total_distance_km(self)
        duration       == total_duration_seconds(self)
    IN  IF IsNone(duration) THEN None
        ELSE LET duration_hours == FDiv(Unwrap(duration), 3600)
             IN  Some(FDiv(distance_km_, duration_hours))

average_speed_kmh(self) ==
    LET distance_km_   == total_distance_km(self)
        duration       == total_duration_seconds(self)
    IN  IF IsNone(duration) THEN None
        ELSE IF Unwrap(duration) = 0 THEN None
        ELSE LET duration_hours == FDiv(Unwrap(duration), 3600)
             IN  Some(FDiv(distance_km_, duration_hours))

\* a snapshot kept from before the last track was added
statistics_stale(self) ==
    LET seen == IF self.tracks = << >> THEN self
                ELSE [self EXCEPT !.tracks = SubSeq(@, 1, Len(@) - 1)]
    IN  [total_tracks      |-> Len(seen.tracks),
         total_waypoints   |-> Len(seen.waypoints),
         total_segments    |-> total_segments(seen),
         total_points      |-> total_points(seen),
         total_distance_km |-> total_distance_km(seen),
         elevation_range   |-> elevation_range(seen),
         elevation_gain    |-> total_elevation_gain(seen),
         elevation_loss    |-> total_elevation_loss(seen),
         duration_seconds  |-> total_duration_seconds(seen),
         average_speed_kmh |-> average_speed_kmh(seen)]

statistics(self) ==
    [total_tracks      |-> Len(self.tracks),
     total_waypoints   |-> Len(self.waypoints),
     total_segments    |-> total_segments(self),
     total_points      |-> total_points(self),
     total_distance_km |-> total_distance_km(self),
     elevation_range   |-> elevation_range(self),
     elevation_gain    |-> total_elevation_gain(self),
     elevation_loss    |-> total_elevation_loss(self),
     duration_seconds  |-> total_duration_seconds(self),
     average_speed_kmh |-> average_speed_kmh(self)]

add_track(self, track) == [self EXCEPT !.tracks = Append(@, track)]

\* the waypoint put before the others
add_waypoint_first(self, waypoint) ==
    [self EXCEPT !.waypoints = << waypoint >> \o @]

add_waypoint(self, waypoint) == [self EXCEPT !.waypoints = Append(@, waypoint)]

is_empty(self) == self.tracks = << >> /\ self.waypoints = << >>

\* the names of the tracks that have one, the others left out
track_names_named(self) ==
    FilterMapOpt([i \in 1 .. Len(self.tracks) |-> self.tracks[i].name])

track_names(self) ==
    [i \in 1 .. Len(self.tracks) |-> Track_display_name(self.tracks[i])]

-----------------------------------------------------------------------------
(* The metric operations a call invokes, in the order of the invocations *)

\* average_speed_kmh calls total_distance_km, then total_duration_seconds
average_speed_kmh_calls ==
    << "average_speed_kmh", "total_distance_km", "total_duration_seconds" >>

\* total_duration_formatted calls total_duration_seconds
total_duration_formatted_calls == << "total_duration_seconds" >>

\* statistics calls one operation per field of the snapshot, in field order
statistics_calls ==
    << "total_segments", "total_points", "total_distance_km", "elevation_range",
       "total_elevation_gain", "total_elevation_loss", "total_duration_seconds" >>
    \o average_speed_kmh_calls

-----------------------------------------------------------------------------
(* Texts: formatting and parsing of numbers and timestamps *)

DigitChar == << "0", "1", "2", "3", "4", "5", "6", "7", "8", "9" >>

IsDigit(c) == \E d \in 1 .. 10 : DigitChar[d] = c

DigitValue(c) == (CHOOSE d \in 1 .. 10 : DigitChar[d] = c) - 1

RECURSIVE Digits(_)
\* the decimal digits of n >= 0
Digits(n) ==
    IF n < 10 THEN << DigitChar[n + 1] >>
    ELSE Digits(n \div 10) \o << DigitChar[(n % 10) + 1] >>

RECURSIVE DigitsValue(_, _)
\* the number a run of digits denotes, after acc
DigitsValue(cs, acc) ==
    IF cs = << >> THEN acc ELSE DigitsValue(Tail(cs), acc * 10 + DigitValue(Head(cs)))

AllDigits(cs) == \A i \in 1 .. Len(cs) : IsDigit(cs[i])

\* a number printed without its fraction
FormatF64_whole(x) ==
    (IF x < 0 THEN << "-" >> ELSE << >>) \o Digits(Abs(x) \div 10)

\* f64::to_string (Display): the shortest text that reads back as the same number;
\* a whole number prints without a fraction
FormatF64(x) ==
    (IF x < 0 THEN << "-" >> ELSE << >>)
    \o Digits(Abs(x) \div 10)
    \o (IF Abs(x) % 10 = 0 THEN << >> ELSE << ".", DigitChar[(Abs(x) % 10) + 1] >>)

\* format!("{:.4}", x): four digits after the point
FormatF64_4(x) ==
    (IF x < 0 THEN << "-" >> ELSE << >>)
    \o Digits(Abs(x) \div 10)
    \o << ".", DigitChar[(Abs(x) % 10) + 1], "0", "0", "0" >>

Waypoint_display_name(self) ==
    IF IsSome(self.name) THEN Unwrap(self.name)
    ELSE << "Waypoint (" >> \o FormatF64_4(self.lat) \o << ", " >>
         \o FormatF64_4(self.lon) \o << ")" >>

waypoint_names(self) ==
    [i \in 1 .. Len(self.waypoints) |-> Waypoint_display_name(self.waypoints[i])]

\* the index of the first "." of cs, or Len(cs) + 1
DotIndex(cs) ==
    IF \E i \in 1 .. Len(cs) : cs[i] = "."
    THEN CHOOSE i \in 1 .. Len(cs) : cs[i] = "." /\ \A j \in 1 .. (i - 1) : cs[j] /= "."
    ELSE Len(cs) + 1

\* <f64 as FromStr>::from_str: Some(number) or None; digits after the first
\* fraction digit are below the resolution of the model
ParseF64(text) ==
    IF text = << "N", "a", "N" >> THEN Some(F64_NAN)
    ELSE IF text = << "i", "n", "f" >> THEN Some(F64_INFINITY)
    ELSE IF text = << "-", "i", "n", "f" >> THEN Some(F64_NEG_INFINITY)
    ELSE
    LET neg   == text /= << >> /\ Head(text) = "-"
        body  == IF text /= << >> /\ Head(text) \in {"-", "+"} THEN Tail(text) ELSE text
        dot   == DotIndex(body)
        whole == SubSeq(body, 1, dot - 1)
        frac  == SubSeq(body, dot + 1, Len(body))
        mag   == DigitsValue(whole, 0) * 10
                 + (IF frac = << >> THEN 0 ELSE DigitValue(Head(frac)))
    IN  IF /\ AllDigits(whole)
           /\ AllDigits(frac)
           /\ Len(whole) + Len(frac) > 0
        THEN Some(IF neg THEN -mag ELSE mag)
        ELSE None

\* the date every timestamp of the model falls on
DateText == "2024-07-11T"

TwoDigits(n) == << DigitChar[(n \div 10) + 1], DigitChar[(n % 10) + 1] >>

\* chrono's Serialize for DateTime<Utc>: RFC 3339 with Z
FormatTime(t) ==
    << DateText >> \o TwoDigits(t \div 3600) \o << ":" >> \o TwoDigits((t % 3600) \div 60)
    \o << ":" >> \o TwoDigits(t % 60) \o << "Z" >>

\* chrono's Deserialize for DateTime<Utc>: Some(instant) or None
ParseTime(text) ==
    IF /\ Len(text) = 10
       /\ text[1] = DateText
       /\ AllDigits(<< text[2], text[3], text[5], text[6], text[8], text[9] >>)
       /\ text[4] = ":" /\ text[7] = ":" /\ text[10] = "Z"
    THEN LET h == DigitsValue(<< text[2], text[3] >>, 0)
             m == DigitsValue(<< text[5], text[6] >>, 0)
             sec == DigitsValue(<< text[8], text[9] >>, 0)
         IN  IF h < 24 /\ m < 60 /\ sec < 60 THEN Some(h * 3600 + m * 60 + sec) ELSE None
    ELSE None

-----------------------------------------------------------------------------
(* Durations as texts *)

\* format!("{:02}", n) for n >= 0: two digits at least
Pad2(n) == IF n < 10 THEN << "0" >> \o Digits(n) ELSE Digits(n)

\* the hours wrapped at the day
FormatDuration_wrapped(total_seconds) ==
    LET hours   == (total_seconds \div 3600) % 24
        minutes == (total_seconds % 3600) \div 60
        seconds == total_seconds % 60
    IN  Pad2(hours) \o << ":" >> \o Pad2(minutes) \o << ":" >> \o Pad2(seconds)

\* format!("{:02}:{:02}:{:02}", hours, minutes, seconds) of a number of
\* seconds >= 0
FormatDuration(total_seconds) ==
    LET hours   == total_seconds \div 3600
        minutes == (total_seconds % 3600) \div 60
        seconds == total_seconds % 60
    IN  Pad2(hours) \o << ":" >> \o Pad2(minutes) \o << ":" >> \o Pad2(seconds)

\* a duration that is 00:00:00 when there is none
total_duration_formatted_zero(self) ==
    IF IsNone(total_duration_seconds(self)) THEN Some(FormatDuration(0))
    ELSE Some(FormatDuration(Unwrap(total_duration_seconds(self))))

total_duration_formatted(self) ==
    IF IsNone(total_duration_seconds(self)) THEN None
    ELSE Some(FormatDuration(Unwrap(total_duration_seconds(self))))

\* GpxStatistics::duration_formatted
duration_formatted(self) ==
    IF IsNone(self.duration_seconds) THEN None
    ELSE Some(FormatDuration(Unwrap(self.duration_seconds)))

-----------------------------------------------------------------------------
(* XML texts, as the sequence of their tokens *)

\* <?xml version="1.0" encoding="UTF-8"?>
XmlDecl == [k |-> "decl", n |-> "xml", a |-> << >>, v |-> << "1.0", "UTF-8" >>]

StartTag(n, a) == [k |-> "start", n |-> n, a |-> a, v |-> << >>]

EndTag(n) == [k |-> "end", n |-> n, a |-> << >>, v |-> << >>]

EmptyTag(n, a) == [k |-> "empty", n |-> n, a |-> a, v |-> << >>]

TextTok(v) == [k |-> "text", n |-> "", a |-> << >>, v |-> v]

Attr(key, value) == << key, value >>

IsWhitespace(v) == \A i \in 1 .. Len(v) : v[i] \in {" ", "\n"}

-----------------------------------------------------------------------------
(* quick_xml::se::to_string on the serde shape of GpxRoot *)

\* an element holding a text: <n>text</n>, or <n/> for the empty text
SerText(n, text) ==
    IF text = << >> THEN << EmptyTag(n, << >>) >>
    ELSE << StartTag(n, << >>), TextTok(text), EndTag(n) >>

\* an element with attributes and children: <n a..>kids</n>, or <n a../> without children
SerElement(n, attrs, kids) ==
    IF kids = << >> THEN << EmptyTag(n, attrs) >>
    ELSE << StartTag(n, attrs) >> \o kids \o << EndTag(n) >>

\* Point: @lat, @lon, then ele and time unless None (skip_serializing_if)
SerPoint(tag, p) ==
    SerElement(tag,
        << Attr("lat", FormatF64(p.lat)), Attr("lon", FormatF64(p.lon)) >>,
        (IF IsSome(p.elevation) THEN SerText("ele", FormatF64(Unwrap(p.elevation))) ELSE << >>)
        \o (IF IsSome(p.time) THEN SerText("time", FormatTime(Unwrap(p.time))) ELSE << >>))

\* Waypoint: @lat, @lon, then name, ele and time unless None (skip_serializing_if)
SerWaypoint(w) ==
    SerElement("wpt",
        << Attr("lat", FormatF64(w.lat)), Attr("lon", FormatF64(w.lon)) >>,
        (IF IsSome(w.name) THEN SerText("name", Unwrap(w.name)) ELSE << >>)
        \o (IF IsSome(w.elevation) THEN SerText("ele", FormatF64(Unwrap(w.elevation))) ELSE << >>)
        \o (IF IsSome(w.time) THEN SerText("time", FormatTime(Unwrap(w.time))) ELSE << >>))

SerTrackSegment(seg) ==
    SerElement("trkseg", << >>,
        Flatten([i \in 1 .. Len(seg.points) |-> SerPoint("trkpt", seg.points[i])]))

\* Track: name unless None (skip_serializing_if), then the segments
SerTrack(t) ==
    SerElement("trk", << >>,
        (IF IsSome(t.name) THEN SerText("name", Unwrap(t.name)) ELSE << >>)
        \o Flatten([i \in 1 .. Len(t.segments) |-> SerTrackSegment(t.segments[i])]))

\* Metadata has no skip_serializing_if: a None field is written as an empty element
SerMetadata(m) ==
    IF IsNone(m) THEN << EmptyTag("metadata", << >>) >>
    ELSE SerElement("metadata", << >>,
            IF IsNone(Unwrap(m).time) THEN << EmptyTag("time", << >>) >>
            ELSE SerText("time", Unwrap(Unwrap(m).time)))

default_version == << "1", ".", "1" >>

default_creator == << "gpx-extractor" >>

SerGpxRoot(root) ==
    SerElement("gpx",
        << Attr("version", root.version), Attr("creator", root.creator) >>,
        SerMetadata(root.metadata)
        \o Flatten([i \in 1 .. Len(root.tracks) |-> SerTrack(root.tracks[i])])
        \o Flatten([i \in 1 .. Len(root.waypoints) |-> SerWaypoint(root.waypoints[i])]))

\* the root element alone, no declaration before it
to_xml_undeclared(self) ==
    SerGpxRoot([version   |-> default_version,
                creator   |-> default_creator,
                metadata  |-> self.metadata,
                tracks    |-> self.tracks,
                waypoints |-> self.waypoints])

\* a serializer that refuses the value
to_string_unsupported(gpx_root) == Err("Unsupported operation")

\* quick_xml::se::to_string(&gpx_root): structs, sequences, options, numbers
\* and texts under valid element names are all written, no GpxRoot is refused
to_string(gpx_root) == Ok(SerGpxRoot(gpx_root))

\* the GpxRoot to_xml hands to the serializer
GpxRootOf(self) ==
    [version   |-> default_version,
     creator   |-> default_creator,
     metadata  |-> self.metadata,
     tracks    |-> self.tracks,
     waypoints |-> self.waypoints]

\* the match of to_xml on the serializer's result: the text returned
to_xml_match(serialized) ==
    IF serialized.ok THEN << XmlDecl, TextTok(<< "\n" >>) >> \o serialized.val
    ELSE << >>

\* the match of to_xml on the serializer's result: the lines eprintln! writes
to_xml_eprintln(serialized) ==
    IF serialized.ok THEN << >>
    ELSE << << "Error serializing GPX to XML: ", serialized.err >> >>

to_xml(self) == to_xml_match(to_string(GpxRootOf(self)))

-----------------------------------------------------------------------------
(* quick_xml::de::from_str on the serde shape of GpxRoot *)

\* a value read, and the position just after it
OkAt(val, pos) == [ok |-> TRUE, val |-> val, err |-> "", pos |-> pos]

RECURSIVE ExpandEmpty(_)
\* the reader's events: a self-closed element is a start and an end; the
\* declaration and the white space between elements are dropped
ExpandEmpty(toks) ==
    IF toks = << >> THEN << >>
    ELSE LET t == Head(toks)
         IN  (CASE t.k = "empty" -> << StartTag(t.n, t.a), EndTag(t.n) >>
                [] t.k = "decl" -> << >>
                [] t.k = "text" /\ IsWhitespace(t.v) -> << >>
                [] OTHER -> << t >>)
             \o ExpandEmpty(Tail(toks))

\* the child elements a struct reads, with the type each is read as; any other
\* child is an unknown field, which serde skips (no deny_unknown_fields)
FieldType(kind, tag) ==
    CASE kind = "GpxRoot" /\ tag = "metadata" -> "Metadata"
      [] kind = "GpxRoot" /\ tag = "trk" -> "Track"
      [] kind = "GpxRoot" /\ tag = "wpt" -> "Waypoint"
      [] kind = "Metadata" /\ tag = "time" -> "String"
      [] kind = "Track" /\ tag = "name" -> "String"
      [] kind = "Track" /\ tag = "trkseg" -> "TrackSegment"
      [] kind = "TrackSegment" /\ tag = "trkpt" -> "Point"
      [] kind = "Point" /\ tag = "ele" -> "f64"
      [] kind = "Point" /\ tag = "time" -> "DateTime"
      [] kind = "Waypoint" /\ tag = "name" -> "String"
      [] kind = "Waypoint" /\ tag = "ele" -> "f64"
      [] kind = "Waypoint" /\ tag = "time" -> "DateTime"
      [] OTHER -> "unknown"

\* the Vec fields
IsSeqField(tag) == tag \in {"trk", "wpt", "trkseg", "trkpt"}

IsStruct(type) == type \in {"GpxRoot", "Metadata", "Track", "TrackSegment", "Point", "Waypoint"}

NoFields ==
    [vals |-> [metadata |-> << >>, trk |-> << >>, wpt |-> << >>, trkseg |-> << >>,
               trkpt |-> << >>, name |-> << >>, ele |-> << >>, time |-> << >>],
     seen |-> {}, last |-> ""]

HasAttr(attrs, key) == \E i \in 1 .. Len(attrs) : attrs[i][1] = key

AttrValue(attrs, key) == attrs[CHOOSE i \in 1 .. Len(attrs) : attrs[i][1] = key][2]

\* a required f64 attribute that an absent attribute leaves at 0.0
AttrF64_defaulted(attrs, key) ==
    IF ~HasAttr(attrs, key) THEN Ok(0)
    ELSE LET x == ParseF64(AttrValue(attrs, key))
         IN  IF IsNone(x) THEN Err("invalid float literal") ELSE Ok(Unwrap(x))

\* a required f64 attribute
AttrF64(attrs, key) ==
    IF ~HasAttr(attrs, key) THEN Err("missing field")
    ELSE LET x == ParseF64(AttrValue(attrs, key))
         IN  IF IsNone(x) THEN Err("invalid float literal") ELSE Ok(Unwrap(x))

\* a Point or a Waypoint, lat and lon being the results of reading @lat and @lon
BuildPoint(lat, lon, val) ==
    IF ~lat.ok THEN lat
    ELSE IF ~lon.ok THEN lon
    ELSE Ok([val EXCEPT !.lat = lat.val, !.lon = lon.val])

\* the value of a struct whose attributes and children have been read
BuildStruct(kind, attrs, f) ==
    CASE kind = "Point" ->
            BuildPoint(AttrF64(attrs, "lat"), AttrF64(attrs, "lon"),
                       [lat |-> 0, lon |-> 0, elevation |-> f.ele, time |-> f.time])
      [] kind = "Waypoint" ->
            BuildPoint(AttrF64(attrs, "lat"), AttrF64(attrs, "lon"),
                       [lat |-> 0, lon |-> 0, name |-> f.name,
                        elevation |-> f.ele, time |-> f.time])
      [] kind = "TrackSegment" -> Ok([points |-> f.trkpt])
      [] kind = "Track" -> Ok([name |-> f.name, segments |-> f.trkseg])
      [] kind = "Metadata" -> Ok([time |-> f.time])
      [] kind = "GpxRoot" ->
            Ok([version   |-> IF HasAttr(attrs, "version")
                              THEN AttrValue(attrs, "version") ELSE default_version,
                creator   |-> IF HasAttr(attrs, "creator")
                              THEN AttrValue(attrs, "creator") ELSE default_creator,
                metadata  |-> f.metadata,
                tracks    |-> f.trk,
                waypoints |-> f.wpt])

RECURSIVE SkipElement(_, _, _)
\* an ignored element: read to its end tag, the reader checking every end tag
\* against its start tag
SkipElement(toks, pos, stack) ==
    IF stack = << >> THEN OkAt(<< >>, pos)
    ELSE IF pos > Len(toks) THEN Err("unexpected end of input")
    ELSE LET t == toks[pos]
         IN  CASE t.k = "start" -> SkipElement(toks, pos + 1, << t.n >> \o stack)
               [] t.k = "end" ->
                    IF t.n = Head(stack) THEN SkipElement(toks, pos + 1, Tail(stack))
                    ELSE Err("mismatched end tag")
               [] OTHER -> SkipElement(toks, pos + 1, stack)

\* the text of an element read as a primitive, pos being just after its start tag
LeafText(toks, pos, open) ==
    IF pos > Len(toks) THEN Err("unexpected end of input")
    ELSE LET t == toks[pos]
         IN  CASE t.k = "end" ->
                    IF t.n = open THEN OkAt(<< >>, pos + 1)
                    ELSE Err("mismatched end tag")
               [] t.k = "start" -> Err("unexpected start tag")
               [] OTHER ->
                    IF pos + 1 > Len(toks) THEN Err("unexpected end of input")
                    ELSE IF toks[pos + 1].k = "start" THEN Err("unexpected start tag")
                    ELSE IF toks[pos + 1].n /= open THEN Err("mismatched end tag")
                    ELSE OkAt(t.v, pos + 2)

RECURSIVE DeValue(_, _, _, _)
RECURSIVE DeChildren(_, _, _, _, _)

\* the result b of building a value, which ends at pos
DeBuilt(b, pos) == IF ~b.ok THEN b ELSE OkAt(b.val, pos)

\* a struct, r being the result of reading its children
DeStruct(type, attrs, r) ==
    IF ~r.ok THEN r ELSE DeBuilt(BuildStruct(type, attrs, r.val.vals), r.pos)

\* the result x of parsing a text, which ends at pos
DeParsed(x, pos) == IF IsNone(x) THEN Err("invalid value") ELSE OkAt(Unwrap(x), pos)

\* a primitive, r being the result of reading its text
DePrimitive(type, r) ==
    IF ~r.ok THEN r
    ELSE DeParsed(CASE type = "f64" -> ParseF64(r.val)
                    [] type = "DateTime" -> ParseTime(r.val)
                    [] OTHER -> Some(r.val),
                  r.pos)

\* an element read as `type`, pos being just after its start tag `start`:
\* [ok, val, err, pos], pos then being just after its end tag
DeValue(type, toks, pos, start) ==
    IF IsStruct(type)
    THEN DeStruct(type, start.a, DeChildren(type, toks, pos, start.n, NoFields))
    ELSE DePrimitive(type, LeafText(toks, pos, start.n))

\* the children after an unknown child n, r being the result of skipping it
DeSkipped(kind, toks, open, f, n, r) ==
    IF ~r.ok THEN r
    ELSE DeChildren(kind, toks, r.pos, open, [f EXCEPT !.last = n])

\* the children after the field n, r being the result of reading it
DeField(kind, toks, open, f, n, r) ==
    IF ~r.ok THEN r
    ELSE DeChildren(kind, toks, r.pos, open,
                    [vals |-> [f.vals EXCEPT ![n] = Append(@, r.val)],
                     seen |-> f.seen \cup {n},
                     last |-> n])

\* the child whose start tag t is at pos, read as `type`, and the children after it
DeChild(kind, toks, pos, open, f, t, type) ==
    IF type = "unknown"
    THEN DeSkipped(kind, toks, open, f, t.n, SkipElement(toks, pos + 1, << t.n >>))
    ELSE IF t.n \in f.seen /\ ~(IsSeqField(t.n) /\ f.last = t.n)
    THEN Err("duplicate field")
    ELSE DeField(kind, toks, open, f, t.n, DeValue(type, toks, pos + 1, t))

\* the children from the token t at pos on
DeToken(kind, toks, pos, open, f, t) ==
    CASE t.k = "end" ->
            IF t.n = open THEN OkAt(f, pos + 1) ELSE Err("mismatched end tag")
      [] t.k = "start" -> DeChild(kind, toks, pos, open, f, t, FieldType(kind, t.n))
      [] OTHER -> DeChildren(kind, toks, pos + 1, open, [f EXCEPT !.last = "$text"])

\* the children of a struct element `open`, read one after another into f
DeChildren(kind, toks, pos, open, f) ==
    IF pos > Len(toks) THEN Err("unexpected end of input")
    ELSE DeToken(kind, toks, pos, open, f, toks[pos])

\* the root element of the events toks
DeRoot(toks) ==
    IF toks = << >> THEN Err("unexpected end of input")
    ELSE CASE toks[1].k = "start" -> DeValue("GpxRoot", toks, 2, toks[1])
           [] toks[1].k = "end" -> Err("unexpected end tag")
           [] OTHER -> Err("expected start tag")

from_str(s) == DeRoot(ExpandEmpty(s))

\* Ok(Gpx) of the GpxRoot read, or its error
GpxOf(gpx_root) ==
    IF ~gpx_root.ok THEN Err(gpx_root.err)
    ELSE Ok([tracks    |-> gpx_root.val.tracks,
             waypoints |-> gpx_root.val.waypoints,
             metadata  |-> gpx_root.val.metadata])

try_from_str(s) == GpxOf(from_str(s))

-----------------------------------------------------------------------------
(* The values the callers of the model pass in *)

\* 12:30:45 and 10:00:00 of the day: PointA is recorded after PointC
PointA == Point_with_time(0, 0, Some(100), 45045)

PointB == Point_new(300, 0)

PointC == Point_with_time(300, -605, Some(255), 36000)

PointPool == {PointA, PointB, PointC}

TrackNames == {None, Some(<< "Morning Run" >>)}

WaypointPool ==
    {Waypoint_with_details(-450, 900, Some(<< "Start" >>), Some(9000), Some(86399)),
     Waypoint_with_details(600, 300, None, None, None)}

RECURSIVE SegmentLists(_)
\* the sequences of segments that hold at most b segments and points together
SegmentLists(b) ==
    {<< >>} \cup
    UNION {LET rests == SegmentLists(b - 1 - n)
           IN  {<< TrackSegment_with_points(ps) >> \o rest :
                   ps \in [1 .. n -> PointPool], rest \in rests} :
           n \in 0 .. (b - 1)}

\* the tracks of at most b elements (the track, its segments, their points)
TrackSet(b) ==
    IF b < 1 THEN {}
    ELSE {[name |-> nm, segments |-> ss] : nm \in TrackNames, ss \in SegmentLists(b - 1)}

RECURSIVE TrackSets(_)
TrackSets(b) == IF b = 0 THEN << >> ELSE Append(TrackSets(b - 1), TrackSet(b))

\* TracksByBudget[b] is TrackSet(b), for b in 1 .. MaxElements
TracksByBudget == TrackSets(MaxElements)

\* tracks + segments + track points + waypoints
Elements(self) ==
    Len(self.tracks) + total_segments(self) + total_points(self) + Len(self.waypoints)

\* the XML texts handed to try_from_str from outside, by name
InputNames ==
    {"empty_gpx", "not_xml", "mismatched_tag", "unclosed_tag", "wrong_nesting",
     "two_points", "metadata_time", "metadata_without_time", "missing_lat",
     "bad_number", "unknown_children", "other_root", "empty_text"}

Sp == TextTok(<< "\n", " " >>)

Ch(cs) == [i \in 1 .. Len(cs) |-> DigitChar[cs[i] + 1]]

InputText(name) ==
    CASE name = "empty_gpx" -> << StartTag("gpx", << >>), EndTag("gpx") >>
      [] name = "empty_text" -> << >>
      [] name = "not_xml" -> << TextTok(<< "not valid xml at all" >>) >>
      [] name = "mismatched_tag" ->
            << StartTag("gpx", << >>), StartTag("trk", << >>), StartTag("invalid", << >>),
               EndTag("trk"), EndTag("gpx") >>
      [] name = "unclosed_tag" ->
            << StartTag("gpx", << >>), StartTag("trk", << >>),
               StartTag("name", << >>), TextTok(<< "Test" >>), EndTag("name") >>
      [] name = "wrong_nesting" ->
            << StartTag("gpx", << >>), Sp, StartTag("trkseg", << >>),
               EmptyTag("trkpt", << Attr("lat", Ch(<< 3, 0 >>)), Attr("lon", Ch(<< 6, 0 >>)) >>),
               EndTag("trkseg"), Sp,
               StartTag("trkpt", << Attr("lat", Ch(<< 0 >>)), Attr("lon", Ch(<< 0 >>)) >>),
               EndTag("trkpt"), Sp, EndTag("gpx") >>
      [] name = "two_points" ->
            << StartTag("gpx", << >>), StartTag("trk", << >>), StartTag("trkseg", << >>),
               StartTag("trkpt", << Attr("lat", Ch(<< 0 >>)), Attr("lon", Ch(<< 0 >>)) >>),
               StartTag("ele", << >>), TextTok(<< "1", "0", ".", "0" >>), EndTag("ele"),
               EndTag("trkpt"),
               StartTag("trkpt", << Attr("lat", Ch(<< 3, 0 >>)), Attr("lon", << "-", "6", "0" >>) >>),
               StartTag("ele", << >>), TextTok(<< "1", "5", ".", "0" >>), EndTag("ele"),
               EndTag("trkpt"),
               EndTag("trkseg"), EndTag("trk"), EndTag("gpx") >>
      [] name = "metadata_time" ->
            << XmlDecl, Sp,
               StartTag("gpx", << Attr("version", << "1", ".", "1" >>),
                                  Attr("creator", << "StravaGPX" >>) >>), Sp,
               StartTag("metadata", << >>), Sp,
               StartTag("time", << >>), TextTok(<< "2024-07-11T17:16:43Z" >>), EndTag("time"),
               Sp, EndTag("metadata"), Sp,
               StartTag("trk", << >>), Sp,
               StartTag("name", << >>), TextTok(<< "Test Track" >>), EndTag("name"), Sp,
               EndTag("trk"), Sp, EndTag("gpx") >>
      [] name = "metadata_without_time" ->
            << StartTag("gpx", << Attr("version", << "1", ".", "1" >>),
                                  Attr("creator", << "test" >>) >>), Sp,
               StartTag("metadata", << >>), Sp, EndTag("metadata"), Sp,
               StartTag("trk", << >>), Sp,
               StartTag("name", << >>), TextTok(<< "Test Track" >>), EndTag("name"), Sp,
               EndTag("trk"), Sp, EndTag("gpx") >>
      [] name = "missing_lat" ->
            << StartTag("gpx", << >>), StartTag("trk", << >>), StartTag("trkseg", << >>),
               EmptyTag("trkpt", << Attr("lat", Ch(<< 0 >>)), Attr("lon", Ch(<< 0 >>)) >>),
               EmptyTag("trkpt", << Attr("lon", Ch(<< 6, 0 >>)) >>),
               EndTag("trkseg"), EndTag("trk"),
               EmptyTag("wpt", << Attr("lat", Ch(<< 1 >>)), Attr("lon", Ch(<< 2 >>)) >>),
               EndTag("gpx") >>
      [] name = "bad_number" ->
            << StartTag("gpx", << >>),
               EmptyTag("wpt", << Attr("lat", << "north" >>), Attr("lon", Ch(<< 2 >>)) >>),
               EndTag("gpx") >>
      [] name = "unknown_children" ->
            << StartTag("gpx", << Attr("xmlns", << "http://www.topografix.com/GPX/1/1" >>) >>),
               StartTag("trk", << >>),
               StartTag("type", << >>), TextTok(<< "running" >>), EndTag("type"),
               StartTag("trkseg", << >>),
               StartTag("trkpt", << Attr("lat", Ch(<< 0 >>)), Attr("lon", Ch(<< 0 >>)) >>),
               StartTag("extensions", << >>), StartTag("hr", << >>), TextTok(Ch(<< 9, 0 >>)),
               EndTag("hr"), EndTag("extensions"),
               EndTag("trkpt"),
               EndTag("trkseg"), EndTag("trk"), EndTag("gpx") >>
      [] name = "other_root" -> << StartTag("foo", << >>), EndTag("foo") >>

\* the positions of s that hold a trkpt or a wpt start tag
PointTags(s) ==
    {i \in 1 .. Len(s) : s[i].k \in {"start", "empty"} /\ s[i].n \in {"trkpt", "wpt"}}

RECURSIVE WithoutAttr(_, _)
WithoutAttr(attrs, key) ==
    IF attrs = << >> THEN << >>
    ELSE (IF Head(attrs)[1] = key THEN << >> ELSE << Head(attrs) >>)
         \o WithoutAttr(Tail(attrs), key)

\* the text s with attribute key of the tag at position i removed
DropAttr(s, i, key) == [s EXCEPT ![i].a = WithoutAttr(@, key)]

-----------------------------------------------------------------------------
(* The state machine: a caller holding one document (gpx), the value the    *)
(* last call returned (ret), the lines written to standard error so far     *)
(* (stderr) and the metric operations the last call invoked (calls)         *)

Returned(op, src, val) == [op |-> op, src |-> src, val |-> val]

Init ==
    /\ gpx = Gpx_new
    /\ ret = Returned("new", "", << >>)
    /\ stderr = << >>
    /\ calls = << >>

\* gpx.add_track(track)
AddTrack ==
    /\ Len(gpx.tracks) < MaxTracks
    /\ Elements(gpx) < MaxElements
    /\ \E track \in TracksByBudget[MaxElements - Elements(gpx)] :
          gpx' = add_track(gpx, track)
    /\ ret' = Returned("add_track", "", << >>)
    /\ calls' = << >>
    /\ UNCHANGED stderr

\* gpx.add_waypoint(waypoint)
AddWaypoint ==
    /\ Len(gpx.waypoints) < MaxWaypoints
    /\ Elements(gpx) < MaxElements
    /\ \E waypoint \in WaypointPool : gpx' = add_waypoint(gpx, waypoint)
    /\ ret' = Returned("add_waypoint", "", << >>)
    /\ calls' = << >>
    /\ UNCHANGED stderr

\* gpx.statistics()
Statistics ==
    /\ ret' = Returned("statistics", "", statistics(gpx))
    /\ calls' = statistics_calls
    /\ UNCHANGED << gpx, stderr >>

\* gpx.total_duration_formatted()
TotalDurationFormatted ==
    /\ ret' = Returned("total_duration_formatted", "", total_duration_formatted(gpx))
    /\ calls' = total_duration_formatted_calls
    /\ UNCHANGED << gpx, stderr >>

\* gpx.to_xml()
ToXml ==
    /\ Elements(gpx) <= MaxEncoded
    /\ ret' = Returned("to_xml", "", to_xml(gpx))
    /\ stderr' = stderr \o to_xml_eprintln(to_string(GpxRootOf(gpx)))
    /\ calls' = << >>
    /\ UNCHANGED gpx

\* the result of Gpx::try_from_str(s) reaches the caller: the document on Ok,
\* which the caller then holds, or the error, the caller keeping what it held
Decode(src, s) ==
    /\ ret' = Returned("try_from_str", src, try_from_str(s))
    /\ gpx' = IF ret'.val.ok THEN ret'.val.val ELSE gpx
    /\ calls' = << >>
    /\ UNCHANGED stderr

\* Gpx::try_from_str on a text from outside, as the caller's first call
TryFromStrInput ==
    /\ ret.op = "new"
    /\ \E name \in InputNames : Decode(name, InputText(name))

\* Gpx::try_from_str on the text to_xml has just returned
TryFromStrXml ==
    /\ ret.op = "to_xml"
    /\ Decode("to_xml", ret.val)

\* Gpx::try_from_str on the text to_xml has just returned, one trkpt or wpt of
\* it having lost its lat or its lon
TryFromStrDamaged ==
    /\ ret.op = "to_xml"
    /\ \E i \in PointTags(ret.val), key \in {"lat", "lon"} :
          Decode("damaged", DropAttr(ret.val, i, key))

\* Gpx::try_from_str on a proper prefix of the text to_xml has just returned:
\* the text was cut in its middle or right before its last tag
TryFromStrTruncated ==
    /\ ret.op = "to_xml"
    /\ \E n \in {Len(ret.val) \div 2, Len(ret.val) - 1} :
          Decode("truncated", SubSeq(ret.val, 1, n))

Next ==
    \/ AddTrack
    \/ AddWaypoint
    \/ Statistics
    \/ TotalDurationFormatted
    \/ ToXml
    \/ TryFromStrInput
    \/ TryFromStrXml
    \/ TryFromStrDamaged
    \/ TryFromStrTruncated

Spec == Init /\ [][Next]_vars

-----------------------------------------------------------------------------
(* The calls on a document of one segment, its points drawn from a grid of  *)
(* coordinates and a range of timestamps                                    *)

\* copies of one point in a segment
MaxCopies == 3

\* latitudes, in tenths of a degree, from pole to pole
GridLats == {-900, -450, 0, 377, 900}

\* longitudes, in tenths of a degree, at most 180 degrees apart
GridLons == {-900, -605, 0, 10, 900}

GridPoints == {Point_new(lat, lon) : lat \in GridLats, lon \in GridLons}

\* seconds since 2024-07-11T00:00:00Z, up to days later
Stamps == {0, 59, 60, 3599, 3600, 9045, 86399, 86400, 90061, 360000}

StampedPoints ==
    {Point_with_time(c[1], c[2], Some(e), t) :
        c \in {<< 0, 0 >>, << 377, -605 >>}, e \in {100, 255}, t \in Stamps}

ValuePoints == GridPoints \cup StampedPoints

\* two points, or up to MaxCopies copies of one point
ValueSegments ==
    [1 .. 2 -> ValuePoints]
    \cup {[i \in 1 .. n |-> pt] : pt \in ValuePoints, n \in 1 .. MaxCopies}

\* track.add_segment(TrackSegment::with_points(points)); gpx.add_track(track)
AddSegmentTrack ==
    /\ gpx.tracks = << >>
    /\ \E points \in ValueSegments :
          gpx' = add_track(gpx, add_segment(Track_new, TrackSegment_with_points(points)))
    /\ ret' = Returned("add_track", "", << >>)
    /\ calls' = << >>
    /\ UNCHANGED stderr

\* p1.haversine_distance(p2) on two points of the document
HaversineDistance ==
    /\ \E i, j \in 1 .. total_points(gpx) :
          ret' = Returned("haversine_distance", << i, j >>,
                          haversine_distance(get_all_points(gpx)[i], get_all_points(gpx)[j]))
    /\ calls' = << >>
    /\ UNCHANGED << gpx, stderr >>

\* segment.distance_km() on a segment of the document
DistanceKm ==
    /\ \E t \in 1 .. Len(gpx.tracks) :
          \E k \in 1 .. Len(gpx.tracks[t].segments) :
             ret' = Returned("distance_km", << t, k >>,
                             distance_km(gpx.tracks[t].segments[k]))
    /\ calls' = << >>
    /\ UNCHANGED << gpx, stderr >>

NextValues ==
    \/ AddSegmentTrack
    \/ Statistics
    \/ TotalDurationFormatted
    \/ HaversineDistance
    \/ DistanceKm

SpecValues == Init /\ [][NextValues]_vars

-----------------------------------------------------------------------------
(* The calls on a document built by a few add_track and add_waypoint calls, *)
(* on Gpx::new() or on a decoded document, every read operation included    *)

\* add_track and add_waypoint calls on one document, the tracks and
\* waypoints it was decoded with counted in
MaxCalls == 3

\* the most segments a track of the model has, and the most points a segment has
MaxPlace == 4

\* an elevation between those of PointA and PointC, no time
PointD == Point_with_elevation(301, -604, 180)

\* a named track that climbs and comes back, an unnamed one whose first
\* segment has a point without elevation between two with, and a named one
\* that descends, with an empty segment
CallTracks ==
    {add_segment(add_segment(Track_with_name(<< "Morning Run" >>),
                             TrackSegment_with_points(<< PointA, PointD, PointC, PointA >>)),
                 TrackSegment_with_points(<< PointC >>)),
     add_segment(add_segment(Track_new,
                             TrackSegment_with_points(<< PointC, PointB, PointA >>)),
                 TrackSegment_with_points(<< PointD, PointA >>)),
     add_segment(add_segment(Track_with_name(<< "Evening" >>),
                             TrackSegment_with_points(<< PointC, PointD, PointA >>)),
                 TrackSegment_new)}

\* gpx.add_track(track)
AppendTrack ==
    /\ Len(gpx.tracks) + Len(gpx.waypoints) < MaxCalls
    /\ \E track \in CallTracks : gpx' = add_track(gpx, track)
    /\ ret' = Returned("add_track", "", << >>)
    /\ calls' = << >>
    /\ UNCHANGED stderr

\* gpx.add_waypoint(waypoint)
AppendWaypoint ==
    /\ Len(gpx.tracks) + Len(gpx.waypoints) < MaxCalls
    /\ \E waypoint \in WaypointPool : gpx' = add_waypoint(gpx, waypoint)
    /\ ret' = Returned("add_waypoint", "", << >>)
    /\ calls' = << >>
    /\ UNCHANGED stderr

\* a date() that takes the metadata out of the document
Date_taking ==
    /\ ret' = Returned("date", "", date(gpx))
    /\ gpx' = [gpx EXCEPT !.metadata = None]
    /\ calls' = << >>
    /\ UNCHANGED stderr

\* gpx.date()
Date ==
    /\ ret' = Returned("date", "", date(gpx))
    /\ calls' = << >>
    /\ UNCHANGED << gpx, stderr >>

\* gpx.track_names()
ListTrackNames ==
    /\ ret' = Returned("track_names", "", track_names(gpx))
    /\ calls' = << >>
    /\ UNCHANGED << gpx, stderr >>

\* gpx.waypoint_names()
ListWaypointNames ==
    /\ ret' = Returned("waypoint_names", "", waypoint_names(gpx))
    /\ calls' = << >>
    /\ UNCHANGED << gpx, stderr >>

\* gpx.is_empty()
IsEmpty ==
    /\ ret' = Returned("is_empty", "", is_empty(gpx))
    /\ calls' = << >>
    /\ UNCHANGED << gpx, stderr >>

\* gpx.total_distance_km()
TotalDistanceKm ==
    /\ ret' = Returned("total_distance_km", "", total_distance_km(gpx))
    /\ calls' = << >>
    /\ UNCHANGED << gpx, stderr >>

\* gpx.elevation_range()
ElevationRange ==
    /\ ret' = Returned("elevation_range", "", elevation_range(gpx))
    /\ calls' = << >>
    /\ UNCHANGED << gpx, stderr >>

\* gpx.total_elevation_gain()
TotalElevationGain ==
    /\ ret' = Returned("total_elevation_gain", "", total_elevation_gain(gpx))
    /\ calls' = << >>
    /\ UNCHANGED << gpx, stderr >>

\* gpx.total_elevation_loss()
TotalElevationLoss ==
    /\ ret' = Returned("total_elevation_loss", "", total_elevation_loss(gpx))
    /\ calls' = << >>
    /\ UNCHANGED << gpx, stderr >>

\* gpx.total_duration_seconds()
TotalDurationSeconds ==
    /\ ret' = Returned("total_duration_seconds", "", total_duration_seconds(gpx))
    /\ calls' = << >>
    /\ UNCHANGED << gpx, stderr >>

\* gpx.average_speed_kmh()
AverageSpeedKmh ==
    /\ ret' = Returned("average_speed_kmh", "", average_speed_kmh(gpx))
    /\ calls' = Tail(average_speed_kmh_calls)
    /\ UNCHANGED << gpx, stderr >>

NextCalls ==
    \/ AppendTrack
    \/ AppendWaypoint
    \/ TryFromStrInput
    \/ Date
    \/ ListTrackNames
    \/ ListWaypointNames
    \/ IsEmpty
    \/ TotalDistanceKm
    \/ ElevationRange
    \/ TotalElevationGain
    \/ TotalElevationLoss
    \/ TotalDurationSeconds
    \/ TotalDurationFormatted
    \/ AverageSpeedKmh
    \/ Statistics
    \/ ToXml
    \/ TryFromStrXml

SpecCalls == Init /\ [][NextCalls]_vars

-----------------------------------------------------------------------------
(* C1: decoding a malformed text *)

\* the last call was try_from_str on a text of one of these sources
Decoded(srcs) == ret.op = "try_from_str" /\ ret.src \in srcs

\* the last call returned Err with a message, and no document
IsErr == ~ret.val.ok /\ ret.val.err /= "" /\ ret.val.val = << >>

\* C1: for every malformed input text (not XML at all, unclosed or mismatched
\* tags, a text cut before its end, wrong nesting) try_from_str returns Err
\* with a non-empty message, never Ok with an empty or partial document.
C1_MalformedIsErr ==
    Decoded({"not_xml", "empty_text", "mismatched_tag", "unclosed_tag",
             "truncated", "wrong_nesting"}) => IsErr

\* the text whose trkseg and trkpt sit right under gpx was decoded: the result
\* is Ok and the document is empty, the two points of the text are gone
C1_WrongNestingIsOk ==
    Decoded({"wrong_nesting"}) /\ ret.val.ok /\ is_empty(gpx) /\ total_points(gpx) = 0

\* what the code does keep of C1: a text that is not well-formed XML is
\* refused with a message, and the caller gets no document
NotWellFormedIsErr ==
    Decoded({"not_xml", "empty_text", "mismatched_tag", "unclosed_tag",
             "truncated"}) => IsErr

-----------------------------------------------------------------------------
(* C2: decoding is all or nothing *)

\* the elements named n that the text s holds
CountTag(s, n) ==
    Cardinality({i \in 1 .. Len(s) : s[i].k \in {"start", "empty"} /\ s[i].n = n})

-----------------------------------------------------------------------------
(* C3: the round trip through to_xml and try_from_str *)

\* C3: for any document d, built or decoded, try_from_str(d.to_xml()) is Ok
\* and its document has as many tracks, segments, waypoints and points as d,
\* and the same total distance.
C3_RoundTrip ==
    [][(ret.op = "to_xml" /\ ret'.op = "try_from_str" /\ ret'.src = "to_xml") =>
          /\ ret'.val.ok
          /\ gpx' = ret'.val.val
          /\ Len(gpx'.tracks) = Len(gpx.tracks)
          /\ total_segments(gpx') = total_segments(gpx)
          /\ Len(gpx'.waypoints) = Len(gpx.waypoints)
          /\ total_points(gpx') = total_points(gpx)
          /\ total_distance_km(gpx') = total_distance_km(gpx)]_vars

\* a document of two points apart, one of them west of Greenwich at a
\* fraction of a degree, and a waypoint, came back from its own text
C3_Witness ==
    /\ Decoded({"to_xml"})
    /\ ret.val.ok
    /\ total_points(gpx) >= 2
    /\ total_distance_km(gpx) > 0
    /\ PointC \in {get_all_points(gpx)[i] : i \in 1 .. total_points(gpx)}
    /\ Len(gpx.waypoints) >= 1

-----------------------------------------------------------------------------
(* C4, C5: elevation gain and loss *)

\* the last call was statistics(): ret.val is the snapshot of gpx
IsSnapshot == ret.op = "statistics"

\* the segments of a document, track after track
Segments(self) ==
    Flatten([i \in 1 .. Len(self.tracks) |-> self.tracks[i].segments])

\* the positions i of the points ps such that ps[i] has a next point
PairsOf(ps) == IF Len(ps) < 2 THEN {} ELSE 1 .. (Len(ps) - 1)

BothElevations(ps, i) == IsSome(ps[i].elevation) /\ IsSome(ps[i + 1].elevation)

\* the elevation of ps[i + 1] less that of ps[i]
Delta(ps, i) == Unwrap(ps[i + 1].elevation) - Unwrap(ps[i].elevation)

RECURSIVE SumOver(_, _)
\* the sum of f over the set S
SumOver(S, f) ==
    IF S = {} THEN 0
    ELSE LET x == CHOOSE y \in S : TRUE IN f[x] + SumOver(S \ {x}, f)

\* the climb, and the descent, inside one segment
SegmentGain(ps) ==
    SumOver({i \in PairsOf(ps) : BothElevations(ps, i) /\ Delta(ps, i) > 0},
            [i \in PairsOf(ps) |-> Delta(ps, i)])

SegmentLoss(ps) ==
    SumOver({i \in PairsOf(ps) : BothElevations(ps, i) /\ Delta(ps, i) < 0},
            [i \in PairsOf(ps) |-> -Delta(ps, i)])

\* C4: elevation gain and loss are accumulated inside each segment only: what
\* statistics() reports, when it reports a value, is the sum over the segments
\* of the climb, and of the descent, between consecutive points of that
\* segment; the step from the last point of a segment to the first point of
\* the next segment, in the same track or in the next track, adds nothing.
C4_GainLossInsideSegments ==
    IsSnapshot =>
        LET segs == Segments(gpx)
        IN  /\ IsSome(ret.val.elevation_gain) =>
                   Unwrap(ret.val.elevation_gain)
                   = SumSeq([k \in 1 .. Len(segs) |-> SegmentGain(segs[k].points)])
            /\ IsSome(ret.val.elevation_loss) =>
                   Unwrap(ret.val.elevation_loss)
                   = SumSeq([k \in 1 .. Len(segs) |-> SegmentLoss(segs[k].points)])

\* the segments k and k + 1 of the document meet at two points that both have
\* an elevation, and the elevations differ
GapWithElevations(self) ==
    LET segs == Segments(self)
    IN  \E k \in PairsOf(segs) :
            LET ps == segs[k].points
                qs == segs[k + 1].points
            IN  /\ ps /= << >>
                /\ qs /= << >>
                /\ IsSome(ps[Len(ps)].elevation)
                /\ IsSome(qs[1].elevation)
                /\ ps[Len(ps)].elevation /= qs[1].elevation

\* a snapshot with a gain or a loss of a document with such a gap
C4_Witness ==
    /\ IsSnapshot
    /\ IsSome(ret.val.elevation_gain)
    /\ GapWithElevations(gpx)
    /\ Unwrap(ret.val.elevation_gain) + Unwrap(ret.val.elevation_loss) > 0

\* the pairs of consecutive points of one segment that both have an elevation:
\* << track, segment, position >>
ElevationPairs(self) ==
    {x \in UNION {UNION {{<< t, sg, i >> : i \in PairsOf(self.tracks[t].segments[sg].points)} :
                         sg \in 1 .. Len(self.tracks[t].segments)} :
                  t \in 1 .. Len(self.tracks)} :
        BothElevations(self.tracks[x[1]].segments[x[2]].points, x[3])}

PairDelta(self, x) == Delta(self.tracks[x[1]].segments[x[2]].points, x[3])

\* C5: gain and loss are None exactly when no pair of consecutive points of
\* one segment has both elevations; otherwise gain is Some(sum of the positive
\* deltas of those pairs) and loss is Some(sum of the sizes of the negative
\* ones), both at least 0 and possibly 0; they are both None or both Some.
C5_GainLossNoneOrSums ==
    IsSnapshot =>
        LET pairs == ElevationPairs(gpx)
            gain  == ret.val.elevation_gain
            loss  == ret.val.elevation_loss
            delta == [x \in pairs |-> PairDelta(gpx, x)]
        IN  /\ IsNone(gain) <=> pairs = {}
            /\ IsNone(loss) <=> pairs = {}
            /\ IsSome(gain) <=> IsSome(loss)
            /\ pairs /= {} =>
                  /\ gain = Some(SumOver({x \in pairs : delta[x] > 0}, delta))
                  /\ loss = Some(-SumOver({x \in pairs : delta[x] < 0}, delta))
                  /\ Unwrap(gain) >= 0
                  /\ Unwrap(loss) >= 0

\* a snapshot of a document that only descends: the gain is Some(0.0)
C5_Witness ==
    /\ IsSnapshot
    /\ ret.val.elevation_gain = Some(0)
    /\ IsSome(ret.val.elevation_loss)
    /\ Unwrap(ret.val.elevation_loss) > 0

\* a snapshot without gain and loss of a document whose points with an
\* elevation never follow one another inside a segment
C5_WitnessNone ==
    /\ IsSnapshot
    /\ ret.val.elevation_gain = None
    /\ ret.val.elevation_loss = None
    /\ IsSome(ret.val.elevation_range)
    /\ total_points(gpx) >= 3

-----------------------------------------------------------------------------
(* C6, C7: duration and average speed *)

\* the timestamps of the points of a document, in no order
Timestamps(self) ==
    LET points == get_all_points(self)
    IN  {Unwrap(points[i].time) : i \in {j \in 1 .. Len(points) : IsSome(points[j].time)}}

Latest(T) == CHOOSE t \in T : \A u \in T : u <= t

Earliest(T) == CHOOSE t \in T : \A u \in T : t <= u

NotFinite == {F64_INFINITY, F64_NEG_INFINITY, F64_NAN}

\* C7: the average speed is None when the duration is None or exactly 0;
\* otherwise it is the distance divided by the duration in hours; a duration
\* of 0 never gives an infinite or NaN speed.
C7_AverageSpeed ==
    IsSnapshot =>
        LET duration == ret.val.duration_seconds
            speed    == ret.val.average_speed_kmh
        IN  IF IsNone(duration) \/ duration = Some(0)
            THEN speed = None
            ELSE /\ speed = Some(FDiv(ret.val.total_distance_km,
                                      FDiv(Unwrap(duration), 3600)))
                 /\ Unwrap(speed) \notin NotFinite

\* a snapshot of a document that covers ground in no time: one timestamp only
C7_Witness ==
    /\ IsSnapshot
    /\ ret.val.duration_seconds = Some(0)
    /\ ret.val.total_distance_km > 0
    /\ ret.val.average_speed_kmh = None

\* a snapshot with a speed
C7_WitnessSpeed ==
    /\ IsSnapshot
    /\ IsSome(ret.val.average_speed_kmh)
    /\ Unwrap(ret.val.average_speed_kmh) > 0

-----------------------------------------------------------------------------
(* C8: statistics() is computed from the document as it is *)

\* C8: every field of the snapshot statistics() returns equals the accessor of
\* that field on the document as it is at the call, whatever was added to the
\* document since an earlier snapshot.
C8_SnapshotIsFresh ==
    IsSnapshot =>
        /\ ret.val.total_tracks = Len(gpx.tracks)
        /\ ret.val.total_waypoints = Len(gpx.waypoints)
        /\ ret.val.total_segments = total_segments(gpx)
        /\ ret.val.total_points = total_points(gpx)
        /\ ret.val.total_distance_km = total_distance_km(gpx)
        /\ ret.val.elevation_range = elevation_range(gpx)
        /\ ret.val.elevation_gain = total_elevation_gain(gpx)
        /\ ret.val.elevation_loss = total_elevation_loss(gpx)
        /\ ret.val.duration_seconds = total_duration_seconds(gpx)
        /\ ret.val.average_speed_kmh = average_speed_kmh(gpx)

\* a snapshot of a document of two tracks, the second with points, and a
\* waypoint: the document was changed at least three times before the call
C8_Witness ==
    /\ IsSnapshot
    /\ Len(gpx.tracks) = 2
    /\ Track_total_points(gpx.tracks[2]) >= 1
    /\ Len(gpx.waypoints) = 1
    /\ ret.val.total_tracks = 2
    /\ ret.val.total_points = total_points(gpx)

-----------------------------------------------------------------------------
(* C9, C10: distances *)

AllSegmentsShort(self) ==
    \A k \in 1 .. Len(Segments(self)) : Len(Segments(self)[k].points) < 2

\* C9: a segment of no point or of one point has the distance 0.0, a number;
\* a document all of whose segments are such has the total distance 0.0, and
\* so has each of its tracks.
C9_ShortSegmentsAreZero ==
    /\ \A k \in 1 .. Len(Segments(gpx)) :
          Len(Segments(gpx)[k].points) < 2 => distance_km(Segments(gpx)[k]) = 0
    /\ AllSegmentsShort(gpx) =>
          /\ \A t \in 1 .. Len(gpx.tracks) : Track_total_distance_km(gpx.tracks[t]) = 0
          /\ total_distance_km(gpx) = 0
          /\ IsSnapshot => ret.val.total_distance_km = 0

\* a snapshot of a document with an empty segment and two segments of one
\* point each, the two points far apart
C9_Witness ==
    /\ IsSnapshot
    /\ AllSegmentsShort(gpx)
    /\ \E k \in 1 .. Len(Segments(gpx)) : Segments(gpx)[k].points = << >>
    /\ total_points(gpx) = 2
    /\ haversine_distance(get_all_points(gpx)[1], get_all_points(gpx)[2]) > 0
    /\ ret.val.total_distance_km = 0

\* the pairs of consecutive points of one segment: << track, segment, position >>
SegmentPairs(self) ==
    UNION {UNION {{<< t, sg, i >> : i \in PairsOf(self.tracks[t].segments[sg].points)} :
                  sg \in 1 .. Len(self.tracks[t].segments)} :
           t \in 1 .. Len(self.tracks)}

PairDistance(self, x) ==
    LET ps == self.tracks[x[1]].segments[x[2]].points
    IN  haversine_distance(ps[x[3]], ps[x[3] + 1])

\* C10: the total distance of the document is the sum of the total distances
\* of its tracks, which is the sum of the distances of all its segments, which
\* is the sum of the haversine distances of the consecutive points of each
\* segment; the way from the last point of a segment to the first point of
\* the next segment or track is not in it.
C10_DistanceIsAdditive ==
    IsSnapshot =>
        LET segs == Segments(gpx)
        IN  /\ ret.val.total_distance_km
                 = SumSeq([t \in 1 .. Len(gpx.tracks) |->
                              Track_total_distance_km(gpx.tracks[t])])
            /\ ret.val.total_distance_km
                 = SumSeq([k \in 1 .. Len(segs) |-> distance_km(segs[k])])
            /\ ret.val.total_distance_km
                 = SumOver(SegmentPairs(gpx),
                           [x \in SegmentPairs(gpx) |-> PairDistance(gpx, x)])

\* the segments k and k + 1 of the document meet at two points that are apart
GapApart(self) ==
    LET segs == Segments(self)
    IN  \E k \in PairsOf(segs) :
            /\ segs[k].points /= << >>
            /\ segs[k + 1].points /= << >>
            /\ haversine_distance(segs[k].points[Len(segs[k].points)],
                                  segs[k + 1].points[1]) > 0

\* a snapshot with a distance of a document with such a gap
C10_Witness ==
    /\ IsSnapshot
    /\ GapApart(gpx)
    /\ ret.val.total_distance_km > 0

-----------------------------------------------------------------------------
(* C11: waypoints and the statistics of the path *)

\* C11: add_waypoint, whatever the coordinates, elevation and time of the
\* waypoint, leaves the distance, the numbers of points and segments, the
\* elevation range, gain and loss, the duration and the average speed of the
\* document as they were, and the number of waypoints one higher.
C11_WaypointsLeaveStatistics ==
    [][ret'.op = "add_waypoint" =>
          /\ total_distance_km(gpx') = total_distance_km(gpx)
          /\ total_points(gpx') = total_points(gpx)
          /\ total_segments(gpx') = total_segments(gpx)
          /\ elevation_range(gpx') = elevation_range(gpx)
          /\ total_elevation_gain(gpx') = total_elevation_gain(gpx)
          /\ total_elevation_loss(gpx') = total_elevation_loss(gpx)
          /\ total_duration_seconds(gpx') = total_duration_seconds(gpx)
          /\ average_speed_kmh(gpx') = average_speed_kmh(gpx)
          /\ Len(gpx'.tracks) = Len(gpx.tracks)
          /\ Len(gpx'.waypoints) = Len(gpx.waypoints) + 1]_vars

\* a waypoint higher and later than every point was added to a document that
\* has an elevation range and a duration
C11_Witness ==
    /\ ret.op = "add_waypoint"
    /\ gpx.waypoints /= << >>
    /\ IsSome(elevation_range(gpx))
    /\ IsSome(total_duration_seconds(gpx))
    /\ LET w == gpx.waypoints[Len(gpx.waypoints)]
       IN  /\ IsSome(w.elevation)
           /\ IsSome(w.time)
           /\ Unwrap(w.elevation) > Unwrap(elevation_range(gpx))[2]
           /\ \A i \in 1 .. total_points(gpx) :
                 IsSome(get_all_points(gpx)[i].time) =>
                     Unwrap(w.time) > Unwrap(get_all_points(gpx)[i].time)

-----------------------------------------------------------------------------
(* C12: documents without any elevation *)

NoPointHasElevation(self) ==
    \A i \in 1 .. total_points(self) : IsNone(get_all_points(self)[i].elevation)

\* C12: when no track point of the document has an elevation, the elevation
\* range, the gain and the loss of the snapshot are all None: not Some(0.0),
\* and not a range made of the infinities the folds start from.
C12_NoElevationIsNone ==
    (IsSnapshot /\ NoPointHasElevation(gpx)) =>
        /\ ret.val.elevation_range = None
        /\ ret.val.elevation_gain = None
        /\ ret.val.elevation_loss = None

\* a snapshot of a document of two points or more, none with an elevation,
\* and a waypoint that has one
C12_Witness ==
    /\ IsSnapshot
    /\ NoPointHasElevation(gpx)
    /\ total_points(gpx) >= 2
    /\ gpx.waypoints /= << >>
    /\ IsSome(gpx.waypoints[1].elevation)
    /\ ret.val.elevation_range = None

-----------------------------------------------------------------------------
(* C13: the empty document *)

\* C13: the document Gpx::new() returns, and the one "<gpx></gpx>" decodes
\* to, has no tracks, no waypoints and no points; its distance is 0.0 and its
\* elevation range, gain, loss, duration, formatted duration and average
\* speed are all None.
C13_EmptyDocument ==
    /\ ret.op = "new" => gpx = Gpx_new
    /\ Decoded({"empty_gpx"}) => ret.val.ok /\ gpx = Gpx_new
    /\ (IsSnapshot /\ is_empty(gpx)) =>
          /\ ret.val.total_tracks = 0
          /\ ret.val.total_waypoints = 0
          /\ ret.val.total_segments = 0
          /\ ret.val.total_points = 0
          /\ ret.val.total_distance_km = 0
          /\ ret.val.elevation_range = None
          /\ ret.val.elevation_gain = None
          /\ ret.val.elevation_loss = None
          /\ ret.val.duration_seconds = None
          /\ ret.val.average_speed_kmh = None
          /\ duration_formatted(ret.val) = None
    /\ (ret.op = "total_duration_formatted" /\ is_empty(gpx)) => ret.val = None

\* total_duration_formatted() was called on the empty document
C13_Witness ==
    /\ ret.op = "total_duration_formatted"
    /\ gpx = Gpx_new
    /\ ret.val = None

\* statistics() was called on the empty document
C13_WitnessSnapshot ==
    /\ IsSnapshot
    /\ gpx = Gpx_new
    /\ ret.val.total_distance_km = 0
    /\ ret.val.average_speed_kmh = None

-----------------------------------------------------------------------------
(* C14: the elevation range of a segment, of a track, of the document *)

\* the elevations the points carry, in no order
ElevationsOf(points) ==
    {Unwrap(points[i].elevation) : i \in {j \in 1 .. Len(points) : IsSome(points[j].elevation)}}

\* None for no elevation, or Some((lowest, highest))
RangeOfSet(E) ==
    IF E = {} THEN None
    ELSE Some(<< CHOOSE lo \in E : \A e \in E : lo <= e,
                 CHOOSE hi \in E : \A e \in E : e <= hi >>)

\* the elevations of the points of all the segments of a track
ElevationsOfTrack(track) ==
    UNION {ElevationsOf(track.segments[j].points) : j \in 1 .. Len(track.segments)}

\* C14: the elevation range of a segment, of a track and of the document is
\* None exactly when no point in it has an elevation, and otherwise
\* Some((min, max)) of the elevations its points carry, points without one
\* being passed over, min <= max; a track's range is over the points of all
\* its segments, the document's over the points of all its tracks.
C14_ElevationRange ==
    /\ \A t \in 1 .. Len(gpx.tracks) :
          LET track == gpx.tracks[t]
          IN  /\ Track_elevation_range(track) = RangeOfSet(ElevationsOfTrack(track))
              /\ \A j \in 1 .. Len(track.segments) :
                    TrackSegment_elevation_range(track.segments[j])
                    = RangeOfSet(ElevationsOf(track.segments[j].points))
    /\ IsSnapshot =>
          /\ ret.val.elevation_range
              = RangeOfSet(UNION {ElevationsOfTrack(gpx.tracks[t]) : t \in 1 .. Len(gpx.tracks)})
          /\ IsSome(ret.val.elevation_range) =>
                Unwrap(ret.val.elevation_range)[1] <= Unwrap(ret.val.elevation_range)[2]

\* a snapshot of a document whose first track has a range wider than that of
\* its first segment, and a point without an elevation
C14_Witness ==
    /\ IsSnapshot
    /\ gpx.tracks /= << >>
    /\ Len(gpx.tracks[1].segments) >= 2
    /\ IsSome(TrackSegment_elevation_range(gpx.tracks[1].segments[1]))
    /\ Track_elevation_range(gpx.tracks[1])
       /= TrackSegment_elevation_range(gpx.tracks[1].segments[1])
    /\ \E i \in 1 .. total_points(gpx) : IsNone(get_all_points(gpx)[i].elevation)
    /\ Unwrap(ret.val.elevation_range)[1] < Unwrap(ret.val.elevation_range)[2]

-----------------------------------------------------------------------------
(* C15: the duration as a text *)

\* text reads H..H:MM:SS, two digits or more for the hours, and the three
\* numbers are the hours, minutes and seconds of d seconds
IsDurationText(text, d) ==
    LET n  == Len(text)
        hh == SubSeq(text, 1, n - 6)
        mm == SubSeq(text, n - 4, n - 3)
        ss == SubSeq(text, n - 1, n)
    IN  /\ n >= 8
        /\ text[n - 5] = ":" /\ text[n - 2] = ":"
        /\ AllDigits(hh) /\ AllDigits(mm) /\ AllDigits(ss)
        /\ DigitsValue(hh, 0) = d \div 3600
        /\ DigitsValue(mm, 0) = (d % 3600) \div 60
        /\ DigitsValue(ss, 0) = d % 60
        /\ DigitsValue(hh, 0) * 3600 + DigitsValue(mm, 0) * 60 + DigitsValue(ss, 0) = d

\* formatted is None for no duration, and the text of the duration otherwise
IsFormattedDuration(formatted, duration) ==
    /\ IsNone(duration) => formatted = None
    /\ IsSome(duration) =>
          /\ IsSome(formatted)
          /\ IsDurationText(Unwrap(formatted), Unwrap(duration))
    /\ duration = Some(9045) =>
          formatted = Some(<< "0", "2", ":", "3", "0", ":", "4", "5" >>)

\* C15: total_duration_formatted is None when the document has no duration,
\* and otherwise the text HH:MM:SS with HH = d div 3600 on two digits or more,
\* never wrapped at 24 hours, MM = (d mod 3600) div 60 and SS = d mod 60 on
\* two digits each, so that HH*3600 + MM*60 + SS is the duration; 9045
\* seconds read 02:30:45. The snapshot formats its duration the same way.
C15_DurationFormatted ==
    /\ ret.op = "total_duration_formatted" =>
          IsFormattedDuration(ret.val, total_duration_seconds(gpx))
    /\ IsSnapshot =>
          IsFormattedDuration(duration_formatted(ret.val), ret.val.duration_seconds)

\* a duration of more than a day, formatted
C15_Witness ==
    /\ ret.op = "total_duration_formatted"
    /\ total_duration_seconds(gpx) = Some(90061)
    /\ ret.val = Some(<< "2", "5", ":", "0", "1", ":", "0", "1" >>)

\* a hundred hours
C15_WitnessLong ==
    /\ ret.op = "total_duration_formatted"
    /\ ret.val = Some(<< "1", "0", "0", ":", "0", "0", ":", "0", "0" >>)

\* no duration
C15_WitnessNone ==
    /\ ret.op = "total_duration_formatted"
    /\ total_points(gpx) = 2
    /\ ret.val = None

-----------------------------------------------------------------------------
(* C16: what to_xml writes for a field that is None *)

\* how many of the Options os are Some
CountSome(os) == Cardinality({i \in 1 .. Len(os) : IsSome(os[i])})

\* the elevation, time and name fields of the points, tracks and waypoints
ElevationFields ==
    [i \in 1 .. total_points(gpx) |-> get_all_points(gpx)[i].elevation]
    \o [i \in 1 .. Len(gpx.waypoints) |-> gpx.waypoints[i].elevation]

TimeFields ==
    [i \in 1 .. total_points(gpx) |-> get_all_points(gpx)[i].time]
    \o [i \in 1 .. Len(gpx.waypoints) |-> gpx.waypoints[i].time]
    \o (IF IsSome(gpx.metadata) THEN << Unwrap(gpx.metadata).time >> ELSE << >>)

NameFields ==
    [i \in 1 .. Len(gpx.tracks) |-> gpx.tracks[i].name]
    \o [i \in 1 .. Len(gpx.waypoints) |-> gpx.waypoints[i].name]

\* C16: the text to_xml returns holds one element per field that has a
\* value and none, not even an empty tag, for a field that is None: the
\* elevation and time of a point or waypoint, the name of a track or
\* waypoint, the time of the metadata, and the metadata of the document.
C16_NoneIsOmitted ==
    ret.op = "to_xml" =>
        /\ CountTag(ret.val, "ele") = CountSome(ElevationFields)
        /\ CountTag(ret.val, "time") = CountSome(TimeFields)
        /\ CountTag(ret.val, "name") = CountSome(NameFields)
        /\ CountTag(ret.val, "metadata") = CountSome(<< gpx.metadata >>)

\* what the code keeps of C16: the fields of points, tracks and waypoints
C16_PointFieldsOmitted ==
    ret.op = "to_xml" =>
        /\ CountTag(ret.val, "ele") = CountSome(ElevationFields)
        /\ CountTag(ret.val, "name") = CountSome(NameFields)
        /\ CountTag(ret.val, "time")
           = CountSome(TimeFields)
             + (IF IsSome(gpx.metadata) /\ IsNone(Unwrap(gpx.metadata).time) THEN 1 ELSE 0)

\* to_xml of a document without metadata, two of whose points lack an
\* elevation or a time, returned a text with an empty metadata element
C16_EmptyMetadataWritten ==
    /\ ret.op = "to_xml"
    /\ gpx.metadata = None
    /\ CountSome(ElevationFields) + 2 <= Len(ElevationFields)
    /\ \E i \in 1 .. Len(ret.val) : ret.val[i] = EmptyTag("metadata", << >>)

\* to_xml of a document whose metadata has no time returned an empty time element
C16_EmptyTimeWritten ==
    /\ ret.op = "to_xml"
    /\ gpx.metadata = Some([time |-> None])
    /\ \E i \in 1 .. Len(ret.val) : ret.val[i] = EmptyTag("time", << >>)

-----------------------------------------------------------------------------
(* C17: the head of the text to_xml returns *)

\* C17: the text to_xml returns starts with the declaration
\* <?xml version="1.0" encoding="UTF-8"?>, and the element that follows is the
\* root gpx with the attributes version="1.1" and creator="gpx-extractor",
\* whatever version and creator the document was decoded from.
C17_DeclarationAndRoot ==
    ret.op = "to_xml" =>
        /\ Len(ret.val) >= 3
        /\ ret.val[1] = XmlDecl
        /\ ret.val[1].v = << "1.0", "UTF-8" >>
        /\ ret.val[2].k = "text" /\ IsWhitespace(ret.val[2].v)
        /\ ret.val[3].k \in {"start", "empty"}
        /\ ret.val[3].n = "gpx"
        /\ ret.val[3].a = << Attr("version", << "1", ".", "1" >>),
                             Attr("creator", << "gpx-extractor" >>) >>

\* to_xml of the document decoded from the text whose creator is StravaGPX,
\* the only text with this metadata
C17_Witness ==
    /\ ret.op = "to_xml"
    /\ gpx.metadata = Some([time |-> Some(<< "2024-07-11T17:16:43Z" >>)])
    /\ gpx.tracks /= << >>
    /\ ret.val[3].a[2] = Attr("creator", << "gpx-extractor" >>)

-----------------------------------------------------------------------------
(* C18: decoding a text whose root element is not gpx *)

\* C18: try_from_str answers a well-formed text whose root element has
\* another name than gpx, such as <foo></foo>, with Err, and not with an
\* empty document.
C18_OtherRootIsErr ==
    Decoded({"other_root"}) => IsErr

\* the text <foo></foo> was decoded: the result is Ok and holds the empty document
C18_OtherRootIsOk ==
    /\ Decoded({"other_root"})
    /\ InputText("other_root") = << StartTag("foo", << >>), EndTag("foo") >>
    /\ ret.val.ok
    /\ ret.val.val = Gpx_new

-----------------------------------------------------------------------------
(* C19, C20: the distance between two points *)

\* the call p1.haversine_distance(p2) has returned: its two points
FirstPoint == get_all_points(gpx)[ret.src[1]]

SecondPoint == get_all_points(gpx)[ret.src[2]]

\* the elevations and times a point may carry
Carried == {<< None, None >>, << Some(8848), Some(86399) >>}

\* pt with another elevation and time
Carrying(pt, et) == [pt EXCEPT !.elevation = et[1], !.time = et[2]]

\* C19: haversine_distance(a, b) equals haversine_distance(b, a), and is the
\* same whatever elevations and times the two points carry.
C19_HaversineSymmetric ==
    ret.op = "haversine_distance" =>
        /\ ret.val = haversine_distance(SecondPoint, FirstPoint)
        /\ \A e1 \in Carried, e2 \in Carried :
              ret.val = haversine_distance(Carrying(FirstPoint, e1), Carrying(SecondPoint, e2))

\* the distance between two points at different latitudes and longitudes, one
\* of which carries an elevation and a time and the other none
C19_Witness ==
    /\ ret.op = "haversine_distance"
    /\ FirstPoint.lat /= SecondPoint.lat
    /\ FirstPoint.lon /= SecondPoint.lon
    /\ IsSome(FirstPoint.elevation) /\ IsSome(FirstPoint.time)
    /\ IsNone(SecondPoint.elevation) /\ IsNone(SecondPoint.time)
    /\ ret.val > 0

\* all the points of a segment are at one coordinate
OneCoordinate(segment) ==
    \A i, j \in 1 .. Len(segment.points) :
        /\ segment.points[i].lat = segment.points[j].lat
        /\ segment.points[i].lon = segment.points[j].lon

\* C20: haversine_distance(p, p) is 0 for a point p of finite coordinates,
\* and a segment made of copies of one coordinate has distance 0.
C20_SamePointIsZero ==
    /\ (/\ ret.op = "haversine_distance"
        /\ FirstPoint.lat = SecondPoint.lat
        /\ FirstPoint.lon = SecondPoint.lon) => ret.val = 0
    /\ (/\ ret.op = "distance_km"
        /\ OneCoordinate(gpx.tracks[ret.src[1]].segments[ret.src[2]])) => ret.val = 0
    /\ (/\ IsSnapshot
        /\ \A t \in 1 .. Len(gpx.tracks) :
              \A k \in 1 .. Len(gpx.tracks[t].segments) :
                 OneCoordinate(gpx.tracks[t].segments[k])) => ret.val.total_distance_km = 0

\* the distance of a segment of MaxCopies copies of one point away from the
\* equator and the prime meridian
C20_Witness ==
    /\ ret.op = "distance_km"
    /\ Len(gpx.tracks[1].segments[1].points) = MaxCopies
    /\ OneCoordinate(gpx.tracks[1].segments[1])
    /\ gpx.tracks[1].segments[1].points[1].lat = 377
    /\ gpx.tracks[1].segments[1].points[1].lon = -605
    /\ ret.val = 0

\* the distance from a point to itself
C20_WitnessPoint ==
    /\ ret.op = "haversine_distance"
    /\ ret.src[1] = ret.src[2]
    /\ FirstPoint.lat = -450
    /\ ret.val = 0

-----------------------------------------------------------------------------
(* C21: the date of the document *)

\* the text of the first time element of the text toks
FirstTimeText(toks) ==
    LET i == CHOOSE i \in 1 .. Len(toks) :
                 /\ toks[i] = StartTag("time", << >>)
                 /\ \A j \in 1 .. (i - 1) : toks[j] /= StartTag("time", << >>)
    IN  toks[i + 1].v

\* C21: date() returns the text of metadata.time as it stood in the input
\* when the document has a metadata with a time, and None both for a
\* document without metadata and for one whose metadata has no time, the
\* metadata of the latter being Some all the same.
C21_DateIsRawTime ==
    /\ ret.op = "date" =>
          /\ IsNone(gpx.metadata) => ret.val = None
          /\ (IsSome(gpx.metadata) /\ IsNone(Unwrap(gpx.metadata).time)) => ret.val = None
          /\ (IsSome(gpx.metadata) /\ IsSome(Unwrap(gpx.metadata).time)) =>
                ret.val = Some(Unwrap(Unwrap(gpx.metadata).time))
    /\ Decoded({"metadata_time"}) =>
          /\ ret.val.ok
          /\ date(gpx) = Some(FirstTimeText(InputText("metadata_time")))
          /\ date(gpx) = Some(<< "2024-07-11T17:16:43Z" >>)
    /\ Decoded({"metadata_without_time"}) =>
          /\ ret.val.ok
          /\ IsSome(gpx.metadata)
          /\ date(gpx) = None
    /\ Decoded({"two_points", "empty_gpx"}) =>
          /\ ret.val.ok
          /\ IsNone(gpx.metadata)
          /\ date(gpx) = None

\* date() on a document decoded with a metadata time, tracks added since
C21_Witness ==
    /\ ret.op = "date"
    /\ Len(gpx.tracks) >= 2
    /\ ret.val = Some(<< "2024-07-11T17:16:43Z" >>)

\* date() on a document whose metadata has no time
C21_WitnessNoTime ==
    /\ ret.op = "date"
    /\ gpx.metadata = Some([time |-> None])
    /\ ret.val = None

\* date() on a document without metadata
C21_WitnessNoMetadata ==
    /\ ret.op = "date"
    /\ gpx.metadata = None
    /\ ~is_empty(gpx)
    /\ ret.val = None

-----------------------------------------------------------------------------
(* C22: the date across to_xml and try_from_str *)

\* the step decodes the text to_xml returned for the document held
DecodesOwnXml ==
    /\ ret.op = "to_xml"
    /\ ret'.op = "try_from_str"
    /\ ret'.src = "to_xml"

\* C22: for every document d, the document decoded from d.to_xml() has the
\* date() of d, also when d has no metadata and when its metadata has no time.
C22_DateSurvivesRoundTrip ==
    [][DecodesOwnXml => (ret'.val.ok /\ date(gpx') = date(gpx))]_vars

\* what the code keeps of C22: the date survives unless d has a metadata
\* without time, and then the date read back is the empty text
C22_DateSurvivesUnlessNoTime ==
    [][DecodesOwnXml =>
          /\ ret'.val.ok
          /\ gpx.metadata /= Some([time |-> None]) => date(gpx') = date(gpx)
          /\ gpx.metadata = Some([time |-> None]) => date(gpx') = Some(<< >>)]_vars

\* the document decoded from the text to_xml returned for a document whose
\* metadata has no time: its date is the empty text
C22_EmptyDateReadBack ==
    /\ ret.op = "try_from_str"
    /\ ret.src = "to_xml"
    /\ ret.val.ok
    /\ gpx.tracks /= << >>
    /\ gpx.metadata = Some([time |-> Some(<< >>)])
    /\ date(gpx) = Some(<< >>)

\* the document decoded from the text to_xml returned for a document without
\* metadata: its metadata is Some, its date None
C22_MetadataReadBack ==
    /\ ret.op = "try_from_str"
    /\ ret.src = "to_xml"
    /\ ret.val.ok
    /\ gpx.metadata = Some([time |-> None])
    /\ gpx.waypoints /= << >>

-----------------------------------------------------------------------------
(* C23: the names of the tracks *)

\* C23: display_name of a track is its stored name when it has one and the
\* literal "Unnamed Track" otherwise, and track_names returns one display
\* name per track, in the order the tracks were added.
C23_TrackNames ==
    /\ \A t \in 1 .. Len(gpx.tracks) :
          /\ IsSome(gpx.tracks[t].name) =>
                Track_display_name(gpx.tracks[t]) = Unwrap(gpx.tracks[t].name)
          /\ IsNone(gpx.tracks[t].name) =>
                Track_display_name(gpx.tracks[t]) = << "Unnamed Track" >>
    /\ ret.op = "track_names" =>
          /\ Len(ret.val) = Len(gpx.tracks)
          /\ \A t \in 1 .. Len(gpx.tracks) :
                ret.val[t] = IF IsSome(gpx.tracks[t].name) THEN Unwrap(gpx.tracks[t].name)
                             ELSE << "Unnamed Track" >>

\* the names of three tracks, the second one unnamed
C23_Witness ==
    /\ ret.op = "track_names"
    /\ ret.val = << << "Evening" >>, << "Unnamed Track" >>, << "Morning Run" >> >>

-----------------------------------------------------------------------------
(* C24: what the calls write to standard error *)

-----------------------------------------------------------------------------
(* C25: the metric operations one statistics() call invokes *)

MetricOperations ==
    {"total_distance_km", "elevation_range", "total_elevation_gain",
     "total_elevation_loss", "total_duration_seconds", "average_speed_kmh",
     "total_points", "total_segments"}

\* how many times the last call invoked the operation m
Invocations(m) == Cardinality({i \in 1 .. Len(calls) : calls[i] = m})

\* C25: one call to statistics() invokes each metric operation
\* (total_distance_km, elevation_range, total_elevation_gain,
\* total_elevation_loss, total_duration_seconds, average_speed_kmh and the
\* counts) exactly once, never zero times and never more than once.
C25_EachMetricOnce ==
    IsSnapshot => \A m \in MetricOperations : Invocations(m) = 1

\* what the code keeps of C25: every metric operation is invoked, and once,
\* but for the two that average_speed_kmh invokes again
C25_EachMetricOnceOrTwice ==
    IsSnapshot =>
        \A m \in MetricOperations :
            Invocations(m) = IF m \in {"total_distance_km", "total_duration_seconds"}
                             THEN 2 ELSE 1

\* statistics() on a document with a track has computed the distance and
\* the duration twice
C25_InvokedTwice ==
    /\ IsSnapshot
    /\ gpx.tracks /= << >>
    /\ Invocations("total_distance_km") = 2
    /\ Invocations("total_duration_seconds") = 2
    /\ Invocations("average_speed_kmh") = 1

-----------------------------------------------------------------------------
(* C26: the read operations *)

ReadOperations ==
    {"statistics", "total_distance_km", "elevation_range", "total_elevation_gain",
     "total_elevation_loss", "total_duration_seconds", "total_duration_formatted",
     "average_speed_kmh", "date", "track_names", "waypoint_names", "is_empty",
     "to_xml"}

\* C26: every read operation (statistics, total_distance_km,
\* elevation_range, total_elevation_gain, total_elevation_loss,
\* total_duration_seconds, total_duration_formatted, average_speed_kmh, date,
\* track_names, waypoint_names, is_empty, to_xml) leaves tracks, waypoints
\* and metadata as they were, and the same operation called a second time
\* in a row returns what it returned the first time.
C26_ReadsLeaveDocument ==
    [][ret'.op \in ReadOperations =>
          /\ gpx'.tracks = gpx.tracks
          /\ gpx'.waypoints = gpx.waypoints
          /\ gpx'.metadata = gpx.metadata
          /\ ret.op = ret'.op => ret'.val = ret.val]_vars

\* a read operation has returned on a document with tracks, waypoints and a date
C26_Witness ==
    /\ ret.op \in ReadOperations
    /\ gpx.tracks /= << >>
    /\ gpx.waypoints /= << >>
    /\ IsSome(date(gpx))

\* date() has returned the date of a document with a waypoint
C26_WitnessDate ==
    /\ ret.op = "date"
    /\ IsSome(ret.val)
    /\ gpx.waypoints /= << >>

-----------------------------------------------------------------------------
(* C27: add_track and add_waypoint *)

\* a step of add_track, add_waypoint or is_empty does what C27 says
C27_Step ==
    /\ ret'.op = "add_track" =>
          /\ Len(gpx'.tracks) = Len(gpx.tracks) + 1
          /\ SubSeq(gpx'.tracks, 1, Len(gpx.tracks)) = gpx.tracks
          /\ gpx'.tracks[Len(gpx'.tracks)] \in CallTracks
          /\ gpx'.waypoints = gpx.waypoints
          /\ gpx'.metadata = gpx.metadata
    /\ ret'.op = "add_waypoint" =>
          /\ Len(gpx'.waypoints) = Len(gpx.waypoints) + 1
          /\ SubSeq(gpx'.waypoints, 1, Len(gpx.waypoints)) = gpx.waypoints
          /\ gpx'.waypoints[Len(gpx'.waypoints)] \in WaypointPool
          /\ gpx'.tracks = gpx.tracks
          /\ gpx'.metadata = gpx.metadata
    /\ ret'.op = "is_empty" =>
          ret'.val = (Len(gpx.tracks) = 0 /\ Len(gpx.waypoints) = 0)

\* C27, the two calls: add_track appends the track as the last of tracks
\* and leaves the earlier tracks, the waypoints and the metadata as they
\* were; add_waypoint appends the waypoint as the last of waypoints and
\* leaves the tracks, the earlier waypoints and the metadata as they were.
\* Gpx::new() holds no track and no waypoint, so that after any sequence of
\* the two calls the lengths are the numbers of calls and the elements are
\* in call order; is_empty() is true exactly when both lengths are 0.
C27_Appends ==
    /\ (ret.op = "new" => (gpx.tracks = << >> /\ gpx.waypoints = << >> /\ is_empty(gpx)))
    /\ [][C27_Step]_vars

\* two different tracks added, then the waypoint without name, then the
\* named one: the document holds them in this order
C27_Witness ==
    /\ ret.op = "add_waypoint"
    /\ Len(gpx.tracks) = 1
    /\ gpx.tracks[1].name = Some(<< "Evening" >>)
    /\ Len(gpx.waypoints) = 2
    /\ gpx.waypoints[1].name = None
    /\ gpx.waypoints[2].name = Some(<< "Start" >>)
    /\ gpx.metadata = None

\* is_empty() has answered FALSE for a document of waypoints only
C27_WitnessNotEmpty ==
    /\ ret.op = "is_empty"
    /\ ret.val = FALSE
    /\ gpx.tracks = << >>

-----------------------------------------------------------------------------
(* C28: gain less loss is the net climb *)

\* every point of every segment of two points or more has an elevation
FullyElevated(self) ==
    \A k \in 1 .. Len(Segments(self)) :
        Len(Segments(self)[k].points) >= 2 =>
            \A i \in 1 .. Len(Segments(self)[k].points) :
                IsSome(Segments(self)[k].points[i].elevation)

\* the elevation of the last point of the segment less that of its first
\* point, for a segment of two points or more
NetClimbOf(segment) ==
    IF Len(segment.points) < 2 THEN 0
    ELSE Unwrap(segment.points[Len(segment.points)].elevation)
         - Unwrap(segment.points[1].elevation)

NetClimb(self) ==
    SumSeq([k \in 1 .. Len(Segments(self)) |-> NetClimbOf(Segments(self)[k])])

\* C28: for a document in which every point of every segment of two points
\* or more has an elevation, total_elevation_gain less total_elevation_loss
\* is the sum over those segments of the elevation of the last point less
\* that of the first; for a single such segment it is last less first.
C28_GainLessLossIsNetClimb ==
    /\ (IsSnapshot /\ FullyElevated(gpx) /\ IsSome(ret.val.elevation_gain)) =>
          /\ IsSome(ret.val.elevation_loss)
          /\ Unwrap(ret.val.elevation_gain) - Unwrap(ret.val.elevation_loss) = NetClimb(gpx)
    /\ (ret.op = "total_elevation_loss" /\ FullyElevated(gpx) /\ IsSome(ret.val)) =>
          Unwrap(total_elevation_gain(gpx)) - Unwrap(ret.val) = NetClimb(gpx)

\* a snapshot of a document of two tracks, one that climbs in two steps and
\* comes back, one that descends: gain and loss are both above 0 and differ
C28_Witness ==
    /\ IsSnapshot
    /\ FullyElevated(gpx)
    /\ Len(gpx.tracks) = 2
    /\ Len(Segments(gpx)) = 4
    /\ Unwrap(ret.val.elevation_gain) = 155
    /\ Unwrap(ret.val.elevation_loss) = 310
    /\ NetClimb(gpx) = -155

\* one track whose only segment with points has three points with three
\* descending elevations
C28_WitnessSingle ==
    /\ ret.op = "total_elevation_loss"
    /\ FullyElevated(gpx)
    /\ Len(gpx.tracks) = 1
    /\ ret.val = Some(155)
    /\ total_elevation_gain(gpx) = Some(0)

-----------------------------------------------------------------------------
(* C29: a point without elevation between two points with one *)

\* the sum of the climbs, and of the descents, over the pairs of consecutive
\* points of one segment that both have an elevation
AdjacentGain(self) ==
    SumOver({x \in ElevationPairs(self) : PairDelta(self, x) > 0},
            [x \in ElevationPairs(self) |-> PairDelta(self, x)])

AdjacentLoss(self) ==
    SumOver({x \in ElevationPairs(self) : PairDelta(self, x) < 0},
            [x \in ElevationPairs(self) |-> -PairDelta(self, x)])

\* a segment holds a point without elevation right between two points with
\* different elevations
BrokenChain(self) ==
    \E k \in 1 .. Len(Segments(self)) :
        LET ps == Segments(self)[k].points
        IN  \E i \in 1 .. (Len(ps) - 2) :
               /\ IsSome(ps[i].elevation)
               /\ IsNone(ps[i + 1].elevation)
               /\ IsSome(ps[i + 2].elevation)
               /\ ps[i].elevation /= ps[i + 2].elevation

\* C29: gain and loss compare strictly adjacent points only: in a segment
\* with the elevations e1, absent, e2 neither pair contributes and e2 - e1 is
\* never counted; when no other pair has both elevations, gain and loss are
\* None although elevation_range is Some((min(e1, e2), max(e1, e2))).
C29_AbsentBreaksChain ==
    IsSnapshot =>
        /\ ElevationPairs(gpx) /= {} =>
              /\ ret.val.elevation_gain = Some(AdjacentGain(gpx))
              /\ ret.val.elevation_loss = Some(AdjacentLoss(gpx))
        /\ ElevationPairs(gpx) = {} =>
              /\ ret.val.elevation_gain = None
              /\ ret.val.elevation_loss = None
        /\ (ElevationPairs(gpx) = {} /\ BrokenChain(gpx)) =>
              /\ IsSome(ret.val.elevation_range)
              /\ Unwrap(ret.val.elevation_range)[1] < Unwrap(ret.val.elevation_range)[2]
              /\ ret.val.elevation_range = RangeOfSet(ElevationsOf(get_all_points(gpx)))

\* the snapshot of a document whose only segment has the elevations 25.5,
\* absent, 10.0
C29_Witness ==
    /\ IsSnapshot
    /\ Len(gpx.tracks) = 1
    /\ Len(gpx.tracks[1].segments) = 1
    /\ gpx.tracks[1].segments[1].points = << PointC, PointB, PointA >>
    /\ ret.val.elevation_gain = None
    /\ ret.val.elevation_loss = None
    /\ ret.val.elevation_range = Some(<< 100, 255 >>)

\* a broken chain next to a pair that counts
C29_WitnessOtherPair ==
    /\ IsSnapshot
    /\ BrokenChain(gpx)
    /\ ElevationPairs(gpx) /= {}
    /\ IsSome(ret.val.elevation_gain)

-----------------------------------------------------------------------------
(* C30: the counts of points and segments, and the order of get_all_points *)

\* the places of the points: track, segment of the track, point of the segment
PointPlaces(self) ==
    {x \in (1 .. Len(self.tracks)) \X (1 .. MaxPlace) \X (1 .. MaxPlace) :
        /\ x[2] <= Len(self.tracks[x[1]].segments)
        /\ x[3] <= Len(self.tracks[x[1]].segments[x[2]].points)}

\* the places of the segments: track, segment of the track
SegmentPlaces(self) ==
    {x \in (1 .. Len(self.tracks)) \X (1 .. MaxPlace) :
        x[2] <= Len(self.tracks[x[1]].segments)}

\* x is y or comes before y in track order, then segment order, then point order
PlaceBefore(x, y) ==
    \/ x[1] < y[1]
    \/ x[1] = y[1] /\ x[2] < y[2]
    \/ x[1] = y[1] /\ x[2] = y[2] /\ x[3] <= y[3]

\* the number of places up to and including x
PlaceRank(self, x) == Cardinality({y \in PointPlaces(self) : PlaceBefore(y, x)})

\* no track has more segments, and no segment more points, than MaxPlace
WithinPlaces(self) ==
    \A i \in 1 .. Len(self.tracks) :
        /\ Len(self.tracks[i].segments) <= MaxPlace
        /\ \A j \in 1 .. Len(self.tracks[i].segments) :
               Len(self.tracks[i].segments[j].points) <= MaxPlace

\* C30: total_points is the sum of Track::total_points over the tracks, the
\* sum of TrackSegment::point_count over all segments and the length of
\* get_all_points(); total_segments is the sum of the numbers of segments of
\* the tracks; get_all_points() lists the points in track order, then segment
\* order, then point order.
C30_CountsAndOrder ==
    /\ WithinPlaces(gpx)
    /\ total_points(gpx) =
          SumSeq([i \in 1 .. Len(gpx.tracks) |-> Track_total_points(gpx.tracks[i])])
    /\ \A i \in 1 .. Len(gpx.tracks) :
          Track_total_points(gpx.tracks[i]) =
              Cardinality({x \in PointPlaces(gpx) : x[1] = i})
    /\ total_points(gpx) = Cardinality(PointPlaces(gpx))
    /\ total_points(gpx) = Len(get_all_points(gpx))
    /\ total_segments(gpx) = Cardinality(SegmentPlaces(gpx))
    /\ \A x \in PointPlaces(gpx) :
          get_all_points(gpx)[PlaceRank(gpx, x)] =
              gpx.tracks[x[1]].segments[x[2]].points[x[3]]
    /\ IsSnapshot =>
          /\ ret.val.total_points = Len(get_all_points(gpx))
          /\ ret.val.total_segments = Cardinality(SegmentPlaces(gpx))

\* the snapshot of a document of two tracks of two segments each, of 4, 1, 3
\* and 2 points, whose tenth point is the second point of the fourth segment
C30_Witness ==
    /\ IsSnapshot
    /\ Len(gpx.tracks) = 2
    /\ [k \in 1 .. 4 |-> point_count(Segments(gpx)[k])] = << 4, 1, 3, 2 >>
    /\ ret.val.total_points = 10
    /\ ret.val.total_segments = 4
    /\ PlaceRank(gpx, << 2, 2, 2 >>) = 10
    /\ get_all_points(gpx)[9] = PointD
    /\ get_all_points(gpx)[10] = PointA

=============================================================================
